---- MODULE Spec2Model ----
(***************************************************************************)
(* FraudGuard ML service (src/ml-service/app.py): the monitoring/alerting  *)
(* subsystem (FraudGuardMonitor) and the scoring engine (FraudGuardML).    *)
(*                                                                         *)
(* Numbers.  Python floats are modelled exactly as scaled integers:        *)
(*   - an anomaly, rule or ensemble score s in [0,1] is s * 10^6;          *)
(*   - final_score and confidence are kept in units of 10^-7, so that the  *)
(*     blend 0.7*a + 0.3*r is the exact integer 7*a + 3*r;                 *)
(*   - fraud_rate = fraud_detected / total_requests > 0.15 is compared as  *)
(*     fraud_detected * 100 > 15 * total_requests (a quotient of two       *)
(*     counters is never within one ulp of 0.15 without being 3/20).       *)
(*                                                                         *)
(* Specifications:                                                         *)
(*   SpecMonitor  runs of record_transaction and record_error calls        *)
(*   SpecWindow   long runs of record_transaction calls                    *)
(*   SpecScore    train-user and detect-fraud requests                     *)
(***************************************************************************)
EXTENDS Integers, Sequences, FiniteSets, TLC

VARIABLES
    metrics,           \* FraudGuardMonitor.metrics
    alerts,            \* FraudGuardMonitor.alerts
    alert_log,         \* emissions of FraudGuardMonitor._trigger_alert, in order
    times_history,     \* history: every processing_time recorded, in call order
    profiles,          \* FraudGuardML.profiles
    models,            \* FraudGuardML.models
    scalers,           \* FraudGuardML.scalers
    training_data,     \* FraudGuardML.training_data
    explainers,        \* SHAPExplainer.explainers
    ens_models,        \* EnsembleFraudDetector.models
    ens_scalers,       \* EnsembleFraudDetector.scalers
    ensemble_trained,  \* FraudGuardML.ensemble_trained
    saved_models,      \* the bundles ModelPersistence.save_model has written
    trainings,         \* number of train-user requests served so far
    response,          \* the last request and what its handler returned
    threads            \* request threads in flight: position and locals

monitor_vars == <<metrics, alerts, alert_log, times_history>>
engine_vars == <<profiles, models, scalers, training_data, explainers,
                 ens_models, ens_scalers, ensemble_trained>>
vars == <<metrics, alerts, alert_log, times_history,
          profiles, models, scalers, training_data, explainers,
          ens_models, ens_scalers, ensemble_trained,
          saved_models, trainings, response, threads>>

----------------------------------------------------------------------------
(* Bounds of the model *)

MaxRequests == 56      \* record_transaction calls in a monitor run
MaxErrors == 2         \* record_error calls in a run
MaxHighRisk == 2       \* HIGH/CRITICAL results recorded in a monitor run
MaxWindowRequests == 1002  \* record_transaction calls in a window run
MaxVaried == 2         \* leading calls of a window run whose time is free

----------------------------------------------------------------------------
(* Python dict helpers *)

\* dict.setdefault in place of the assignment: a key keeps its old value
Put_setdefault(d, k, v) ==
    [x \in (DOMAIN d) \cup {k} |-> IF x \in DOMAIN d THEN d[x] ELSE v]

\* d[k] = v on a dict
Put(d, k, v) == [x \in (DOMAIN d) \cup {k} |-> IF x = k THEN v ELSE d[x]]

\* defaultdict.__getitem__: the default when the key is missing
GetDefault(d, k, default) == IF k \in DOMAIN d THEN d[k] ELSE default

EmptyDict == [x \in {} |-> 0]

----------------------------------------------------------------------------
(* FraudGuardMonitor *)

AlertTypes == {"high_fraud_rate", "slow_response", "model_errors", "unusual_activity"}

\* thresholds (app.py:69-74)
max_fraud_rate_pct == 15
max_response_time == 200
max_error_rate_pct == 5
min_requests_for_alert == 50

\* deque(maxlen=1000)
processing_times_maxlen == 1000

\* append on a plain list: nothing is discarded
DequeAppend_unbounded(q, x) == Append(q, x)

\* deque.append on a bounded deque: the oldest entry is discarded when full
DequeAppend(q, x) ==
    IF Len(q) >= processing_times_maxlen
    THEN Append(Tail(q), x)
    ELSE Append(q, x)

\* FraudGuardMonitor.__init__
InitMetrics ==
    [ total_requests |-> 0,
      fraud_detected |-> 0,
      false_positives |-> 0,
      processing_times |-> << >>,
      error_count |-> 0,
      hourly_stats |-> EmptyDict,
      user_activity |-> EmptyDict,
      high_risk_transactions |-> << >> ]

InitAlerts == [a \in AlertTypes |-> FALSE]

\* record_transaction counting a request in hourly_stats only when the
\* result is suspicious
MetricsAfterRecord_hourly(m, user_id, result, processing_time, hour) ==
    LET stats == GetDefault(m.hourly_stats, hour, [requests |-> 0, fraud |-> 0])
        incident == [ user_id |-> user_id,
                      timestamp |-> hour,
                      risk_level |-> result.risk_level,
                      anomaly_score |-> result.anomaly_score ]
    IN  [ m EXCEPT
            !.total_requests = @ + 1,
            !.user_activity = Put(@, user_id, GetDefault(@, user_id, 0) + 1),
            !.processing_times = DequeAppend(@, processing_time),
            !.fraud_detected = IF result.is_suspicious THEN @ + 1 ELSE @,
            !.high_risk_transactions =
                IF result.is_suspicious /\ result.risk_level \in {"HIGH", "CRITICAL"}
                THEN Append(@, incident)
                ELSE @,
            !.hourly_stats =
                IF result.is_suspicious
                THEN Put(@, hour, [ requests |-> stats.requests + 1,
                                    fraud |-> stats.fraud + 1 ])
                ELSE @ ]

\* metrics after the body of record_transaction, before _check_alerts
MetricsAfterRecord(m, user_id, result, processing_time, hour) ==
    LET stats == GetDefault(m.hourly_stats, hour, [requests |-> 0, fraud |-> 0])
        incident == [ user_id |-> user_id,
                      timestamp |-> hour,
                      risk_level |-> result.risk_level,
                      anomaly_score |-> result.anomaly_score ]
    IN  [ m EXCEPT
            !.total_requests = @ + 1,
            !.user_activity = Put(@, user_id, GetDefault(@, user_id, 0) + 1),
            !.processing_times = DequeAppend(@, processing_time),
            !.fraud_detected = IF result.is_suspicious THEN @ + 1 ELSE @,
            !.high_risk_transactions =
                IF result.is_suspicious /\ result.risk_level \in {"HIGH", "CRITICAL"}
                THEN Append(@, incident)
                ELSE @,
            !.hourly_stats =
                Put(@, hour, [ requests |-> stats.requests + 1,
                               fraud |-> IF result.is_suspicious
                                         THEN stats.fraud + 1
                                         ELSE stats.fraud ]) ]

\* metrics after the body of record_error, before _check_alerts
MetricsAfterError(m) == [m EXCEPT !.error_count = @ + 1]

\* fraud_rate > thresholds['max_fraud_rate']
FraudRateHigh(m) == m.fraud_detected * 100 > max_fraud_rate_pct * m.total_requests

\* _check_alerts with the min_requests_for_alert comparison off by one
CheckAlerts_late(m, al, log) ==
    IF m.total_requests <= min_requests_for_alert
    THEN [alerts |-> al, log |-> log]
    ELSE IF FraudRateHigh(m)
         THEN IF ~al["high_fraud_rate"]
              THEN [ alerts |-> [al EXCEPT !["high_fraud_rate"] = TRUE],
                     log |-> Append(log, "high_fraud_rate") ]
              ELSE [alerts |-> al, log |-> log]
         ELSE [alerts |-> [al EXCEPT !["high_fraud_rate"] = FALSE], log |-> log]

\* _check_alerts without the "if not self.alerts[...]" guard
CheckAlerts_refire(m, al, log) ==
    IF m.total_requests < min_requests_for_alert
    THEN [alerts |-> al, log |-> log]
    ELSE IF FraudRateHigh(m)
         THEN [ alerts |-> [al EXCEPT !["high_fraud_rate"] = TRUE],
                log |-> Append(log, "high_fraud_rate") ]
         ELSE [alerts |-> [al EXCEPT !["high_fraud_rate"] = FALSE], log |-> log]

\* _check_alerts without the else branch that clears the flag
CheckAlerts_latched(m, al, log) ==
    IF m.total_requests < min_requests_for_alert
    THEN [alerts |-> al, log |-> log]
    ELSE IF FraudRateHigh(m)
         THEN IF ~al["high_fraud_rate"]
              THEN [ alerts |-> [al EXCEPT !["high_fraud_rate"] = TRUE],
                     log |-> Append(log, "high_fraud_rate") ]
              ELSE [alerts |-> al, log |-> log]
         ELSE [alerts |-> al, log |-> log]

\* _check_alerts on metrics m, alert flags al and the emissions so far:
\* the flags it leaves and the emissions after its _trigger_alert calls
CheckAlerts(m, al, log) ==
    IF m.total_requests < min_requests_for_alert
    THEN [alerts |-> al, log |-> log]
    ELSE IF FraudRateHigh(m)
         THEN IF ~al["high_fraud_rate"]
              THEN [ alerts |-> [al EXCEPT !["high_fraud_rate"] = TRUE],
                     log |-> Append(log, "high_fraud_rate") ]
              ELSE [alerts |-> al, log |-> log]
         ELSE [alerts |-> [al EXCEPT !["high_fraud_rate"] = FALSE], log |-> log]

\* the call self._check_alerts() that ends record_transaction and record_error
check_alerts(m) ==
    LET r == CheckAlerts(m, alerts, alert_log)
    IN  /\ alerts' = r.alerts
        /\ alert_log' = r.log

record_transaction(user_id, result, processing_time, hour) ==
    LET m == MetricsAfterRecord(metrics, user_id, result, processing_time, hour)
    IN  /\ metrics' = m
        /\ times_history' = Append(times_history, processing_time)
        /\ check_alerts(m)

record_error ==
    LET m == MetricsAfterError(metrics)
    IN  /\ metrics' = m
        /\ times_history' = times_history
        /\ check_alerts(m)

\* sum(s[lo..hi])
RECURSIVE SumRange(_, _, _)
SumRange(s, lo, hi) ==
    IF lo > hi THEN 0
    ELSE IF lo = hi THEN s[lo]
    ELSE LET mid == (lo + hi) \div 2
         IN  SumRange(s, lo, mid) + SumRange(s, mid + 1, hi)

\* get_current_metrics: avg_response_time_ms as the exact fraction num/den
\* (0 when the window is empty)
AvgResponseTime(m) ==
    LET pt == m.processing_times
    IN  IF pt = << >>
        THEN [num |-> 0, den |-> 1]
        ELSE [num |-> SumRange(pt, 1, Len(pt)), den |-> Len(pt)]

----------------------------------------------------------------------------
(* FraudGuardML.detect_advanced_fraud: risk tier of a final score          *)
(* final_score is in units of 1/10000000 (10^-7)                           *)

tier_critical == 9000000     \* final_score > 0.9
tier_high == 7000000         \* final_score > 0.7
tier_medium == 5000000       \* final_score > 0.5

\* the chain with the HIGH and MEDIUM branches exchanged
RiskTier_swapped(final_score) ==
    IF final_score > tier_critical
    THEN [risk_level |-> "CRITICAL", is_suspicious |-> TRUE]
    ELSE IF final_score > tier_high
    THEN [risk_level |-> "MEDIUM", is_suspicious |-> TRUE]
    ELSE IF final_score > tier_medium
    THEN [risk_level |-> "HIGH", is_suspicious |-> TRUE]
    ELSE [risk_level |-> "LOW", is_suspicious |-> FALSE]

\* the chain comparing with >= instead of >
RiskTier_inclusive(final_score) ==
    IF final_score >= tier_critical
    THEN [risk_level |-> "CRITICAL", is_suspicious |-> TRUE]
    ELSE IF final_score >= tier_high
    THEN [risk_level |-> "HIGH", is_suspicious |-> TRUE]
    ELSE IF final_score >= tier_medium
    THEN [risk_level |-> "MEDIUM", is_suspicious |-> TRUE]
    ELSE [risk_level |-> "LOW", is_suspicious |-> FALSE]

\* the chain with is_suspicious left False in the MEDIUM branch
RiskTier_medium_clean(final_score) ==
    IF final_score > tier_critical
    THEN [risk_level |-> "CRITICAL", is_suspicious |-> TRUE]
    ELSE IF final_score > tier_high
    THEN [risk_level |-> "HIGH", is_suspicious |-> TRUE]
    ELSE IF final_score > tier_medium
    THEN [risk_level |-> "MEDIUM", is_suspicious |-> FALSE]
    ELSE [risk_level |-> "LOW", is_suspicious |-> FALSE]

\* the if/elif chain that sets risk_level and is_suspicious
RiskTier(final_score) ==
    IF final_score > tier_critical
    THEN [risk_level |-> "CRITICAL", is_suspicious |-> TRUE]
    ELSE IF final_score > tier_high
    THEN [risk_level |-> "HIGH", is_suspicious |-> TRUE]
    ELSE IF final_score > tier_medium
    THEN [risk_level |-> "MEDIUM", is_suspicious |-> TRUE]
    ELSE [risk_level |-> "LOW", is_suspicious |-> FALSE]

----------------------------------------------------------------------------
(* FraudGuardML: scoring                                                   *)
(* amounts are whole currency units; anomaly, rule and ensemble scores are *)
(* in units of 10^-6; final_score and confidence in units of 10^-7         *)

\* Python None
None == [is_none |-> TRUE]

Max(a, b) == IF a >= b THEN a ELSE b
Min(a, b) == IF a <= b THEN a ELSE b
Abs(a) == IF a >= 0 THEN a ELSE -a

\* 1.0 as a score
one == 1000000
\* 0.5 as a score: normalized_score = 0.5 - isolation_score
half == 500000

\* normalized_score = (0.5 - isolation_score), not clamped
NormalizedScore_unclamped(isolation_score) == half - isolation_score

\* normalized_score = max(0, min(1, (0.5 - isolation_score)))
NormalizedScore(isolation_score) == Max(0, Min(one, half - isolation_score))

\* _apply_business_rules: thresholds and increments
rule_amount_limit == 5000
rule_avg_multiple == 10
rule_amount_inc == 300000
rule_avg_inc == 400000
rule_night_inc == 200000
rule_category_inc == 200000
rule_weekend_inc == 150000

high_risk_categories == {"electronics", "jewelry", "travel", "cash_advance"}

\* _apply_business_rules without the final min(1.0, ...)
ApplyBusinessRules_uncapped(transaction, profile) ==
    LET s0 == 0
        s1 == IF transaction.amount > rule_amount_limit
              THEN s0 + rule_amount_inc ELSE s0
        s2 == IF transaction.amount > profile.avg_amount * rule_avg_multiple
              THEN s1 + rule_avg_inc ELSE s1
        s3 == IF transaction.hour \in {0, 1, 2, 3, 4, 5}
              THEN s2 + rule_night_inc ELSE s2
        s4 == IF transaction.merchant_category \in high_risk_categories
              THEN s3 + rule_category_inc ELSE s3
        s5 == IF transaction.day_of_week \in {5, 6}
                 /\ transaction.hour \in {22, 23, 0, 1, 2}
              THEN s4 + rule_weekend_inc ELSE s4
    IN  s5

\* _apply_business_rules: rule_score after each if statement, then the cap
ApplyBusinessRules(transaction, profile) ==
    LET s0 == 0
        s1 == IF transaction.amount > rule_amount_limit
              THEN s0 + rule_amount_inc ELSE s0
        s2 == IF transaction.amount > profile.avg_amount * rule_avg_multiple
              THEN s1 + rule_avg_inc ELSE s1
        s3 == IF transaction.hour \in {0, 1, 2, 3, 4, 5}
              THEN s2 + rule_night_inc ELSE s2
        s4 == IF transaction.merchant_category \in high_risk_categories
              THEN s3 + rule_category_inc ELSE s3
        s5 == IF transaction.day_of_week \in {5, 6}
                 /\ transaction.hour \in {22, 23, 0, 1, 2}
              THEN s4 + rule_weekend_inc ELSE s4
    IN  Min(one, s5)

\* EnsembleFraudDetector.predict_ensemble; outcome is what scaler.transform
\* and model.predict_proba do: raise, or give the fraud probability
PredictEnsemble(user_id, outcome) ==
    IF user_id \notin DOMAIN ens_models
    THEN None
    ELSE IF outcome.raises \/ user_id \notin DOMAIN ens_scalers
    THEN None
    ELSE [ ensemble_score |-> outcome.fraud_proba,
           is_fraud |-> outcome.fraud_proba > half,
           confidence |-> Abs(outcome.fraud_proba - half) * 2,
           model |-> ens_models[user_id],
           scaler |-> ens_scalers[user_id] ]

\* the ensemble consulted whenever some ensemble model is stored for the user
EnsembleEnabled_stale(user_id) == user_id \in DOMAIN ens_models

\* user_id in self.ensemble_trained and self.ensemble_trained[user_id]
EnsembleEnabled(user_id) ==
    user_id \in DOMAIN ensemble_trained /\ ensemble_trained[user_id]

\* blend weights of final_score = normalized_score * 0.7 + rule_score * 0.3
weight_anomaly == 7
weight_rules == 3
\* one unit of an ensemble score in units of final_score
final_per_score == 10
\* 0.5 in units of final_score: confidence = abs(final_score - 0.5) * 2
half_final == 5000000

\* the fusion with the ensemble score blended in instead of replacing
FusedScore_blend(normalized_score, rule_score, ensemble_result) ==
    IF ensemble_result # None
    THEN (normalized_score * weight_anomaly + rule_score * weight_rules
            + ensemble_result.ensemble_score * final_per_score) \div 2
    ELSE normalized_score * weight_anomaly + rule_score * weight_rules

\* final_score: the blend, replaced by the ensemble score when
\* predict_ensemble returned a result
FusedScore(normalized_score, rule_score, ensemble_result) ==
    IF ensemble_result # None
    THEN ensemble_result.ensemble_score * final_per_score
    ELSE normalized_score * weight_anomaly + rule_score * weight_rules

\* SHAPExplainer.feature_names
feature_names == <<"amount", "hour", "day_of_week", "category_encoded", "is_weekend", "is_night">>

\* the number of features whose |shap value| > 0.01 in an outcome:
\* "ok" two, "ok_all" all six, "ok_none" none
ShapNotable(outcome) ==
    CASE outcome = "ok" -> 2
      [] outcome = "ok_all" -> Len(feature_names)
      [] OTHER -> 0

\* the first n entries of s (s[:n])
FirstN(s, n) == IF Len(s) <= n THEN s ELSE SubSeq(s, 1, n)

\* explain_prediction flagging an attribution as available although the
\* explainer is missing or raised
ExplainPrediction_flagged(user_id, outcome) ==
    [ shap_available |-> TRUE, explanations |-> << >>,
      most_important_feature |-> "unknown" ]

\* SHAPExplainer.explain_prediction; outcome is what the explainer call does
ExplainPrediction(user_id, outcome) ==
    IF user_id \notin DOMAIN explainers
    THEN [shap_available |-> FALSE, error |-> "SHAP explainer not found"]
    ELSE IF outcome = "raises"
    THEN [shap_available |-> FALSE, error |-> "raised"]
    ELSE [shap_available |-> TRUE, explainer |-> explainers[user_id],
          explanations |-> [i \in 1..ShapNotable(outcome) |-> "attribution: feature"],
          most_important_feature |-> feature_names[1]]

\* the statements of _generate_comprehensive_explanations, by kind
amount_3sigma == "amount: x higher than usual"
amount_2sigma == "amount: significantly higher than typical"
time_night == "time: very unusual"
time_uncommon == "time: uncommon"
category_high_risk == "category: high-risk"
category_new == "category: new"
weekend_unusual == "weekend: unusual for this user"
ml_confidence == "confidence: ML and rules"
appears_normal == "appears normal"
\* the statements detect_advanced_fraud appends
attribution_header == "attribution: header"
attribution_top == "attribution: most influential factor"
ensemble_header == "ensemble: header"
ensemble_confidence == "ensemble: confidence"
profile_not_found == "User profile not found - please train model first"

\* weekend_ratio < 0.2
WeekendRare(profile) == 5 * profile.weekend_ratio.num < profile.weekend_ratio.den

\* the statements before the confidence line
QualifyingStatements(transaction, profile) ==
    LET amount == transaction.amount
        avg_amount == profile.avg_amount
        std_amount == profile.std_amount
        by_amount ==
            IF amount > avg_amount + 3 * std_amount THEN <<amount_3sigma>>
            ELSE IF amount > avg_amount + 2 * std_amount THEN <<amount_2sigma>>
            ELSE << >>
        hour == transaction.hour
        top_hours == FirstN(profile.active_hours, 5)
        by_time ==
            IF \A i \in DOMAIN top_hours : top_hours[i] # hour
            THEN IF hour \in {0, 1, 2, 3, 4, 5} THEN <<time_night>>
                 ELSE <<time_uncommon>>
            ELSE << >>
        category == transaction.merchant_category
        top_categories == FirstN(profile.common_categories, 3)
        by_category ==
            IF \A i \in DOMAIN top_categories : top_categories[i] # category
            THEN IF category \in {"electronics", "jewelry", "travel"}
                 THEN <<category_high_risk>>
                 ELSE <<category_new>>
            ELSE << >>
        by_weekend ==
            IF transaction.day_of_week \in {5, 6} /\ WeekendRare(profile)
            THEN <<weekend_unusual>>
            ELSE << >>
    IN  by_amount \o by_time \o by_category \o by_weekend

\* the f-string of the first amount statement divides amount by avg_amount
ExplanationsRaise(transaction, profile) ==
    /\ transaction.amount > profile.avg_amount + 3 * profile.std_amount
    /\ profile.avg_amount = 0

\* the generator returning the qualifying statements alone
GenerateExplanations_bare(transaction, profile) ==
    QualifyingStatements(transaction, profile)

\* _generate_comprehensive_explanations when it does not raise
GenerateExplanations(transaction, profile) ==
    LET explanations ==
            QualifyingStatements(transaction, profile) \o <<ml_confidence>>
    IN  IF explanations # << >>
        THEN explanations
        ELSE <<appears_normal>>

\* the result for a user without a model flagged as suspicious
UnknownResult_suspicious ==
    [ anomaly_score |-> one,
      is_suspicious |-> TRUE,
      risk_level |-> "UNKNOWN",
      confidence |-> 0,
      processing_time_ms |-> 0,
      explanation |-> <<profile_not_found>>,
      shap_analysis |-> None,
      ensemble_analysis |-> None ]

\* the result for a user without a model
UnknownResult ==
    [ anomaly_score |-> 0,
      is_suspicious |-> FALSE,
      risk_level |-> "UNKNOWN",
      confidence |-> 0,
      processing_time_ms |-> 0,
      explanation |-> <<profile_not_found>>,
      shap_analysis |-> None,
      ensemble_analysis |-> None ]

\* detect_advanced_fraud for a user with a model: the result dict
DetectResult(transaction, isolation_score, ens_outcome, shap_outcome, processing_time) ==
    LET user_id == transaction.user_id
        profile == profiles[user_id]
        normalized_score == NormalizedScore(isolation_score)
        rule_score == ApplyBusinessRules(transaction, profile)
        ensemble_result ==
            IF EnsembleEnabled(user_id)
            THEN PredictEnsemble(user_id, ens_outcome)
            ELSE None
        final_score == FusedScore(normalized_score, rule_score, ensemble_result)
        shap_analysis == ExplainPrediction(user_id, shap_outcome)
        explanations ==
            GenerateExplanations(transaction, profile)
            \o (IF shap_analysis.shap_available
                THEN <<attribution_header>>
                     \o FirstN(shap_analysis.explanations, 3)
                     \o <<attribution_top>>
                ELSE << >>)
            \o (IF ensemble_result # None
                THEN <<ensemble_header, ensemble_confidence>>
                ELSE << >>)
        tier == RiskTier(final_score)
    IN  [ anomaly_score |-> final_score,
          is_suspicious |-> tier.is_suspicious,
          risk_level |-> tier.risk_level,
          explanation |-> explanations,
          confidence |-> Abs(final_score - half_final) * 2,
          processing_time_ms |-> processing_time,
          shap_analysis |-> shap_analysis,
          ensemble_analysis |-> ensemble_result,
          model_scores |->
              [ isolation_forest |-> normalized_score,
                business_rules |-> rule_score,
                ensemble |-> IF ensemble_result # None
                             THEN final_score ELSE None,
                combined |-> final_score ] ]

\* the least number of transactions train_user_model accepts
min_training_transactions == 15

\* sum of the amount column
RECURSIVE SumAmounts(_, _)
SumAmounts(transactions, i) ==
    IF i = 0 THEN 0 ELSE transactions[i].amount + SumAmounts(transactions, i - 1)

\* sum of the squared deviations of the amount column from mean
RECURSIVE SumSquares(_, _, _)
SumSquares(transactions, i, mean) ==
    IF i = 0 THEN 0
    ELSE (transactions[i].amount - mean) * (transactions[i].amount - mean)
            + SumSquares(transactions, i - 1, mean)

\* the integer square root
ISqrt(v) == CHOOSE r \in 0..v : r * r <= v /\ v < (r + 1) * (r + 1)

\* df['amount'].std(): the sample standard deviation
SampleStd(transactions, mean) ==
    ISqrt(SumSquares(transactions, Len(transactions), mean)
             \div (Len(transactions) - 1))

\* the number of rows whose column holds v
CountOf(column, v) == Cardinality({i \in DOMAIN column : column[i] = v})

\* the row where v first appears in the column
FirstRow(column, v) == CHOOSE i \in DOMAIN column :
    column[i] = v /\ \A j \in DOMAIN column : column[j] = v => i <= j

\* the values of `rest` by falling count, equal counts in order of appearance
RECURSIVE ByCount(_, _)
ByCount(column, rest) ==
    IF rest = {} THEN << >>
    ELSE LET top == CHOOSE v \in rest : \A w \in rest :
                        \/ CountOf(column, v) > CountOf(column, w)
                        \/ /\ CountOf(column, v) = CountOf(column, w)
                           /\ FirstRow(column, v) <= FirstRow(column, w)
         IN  <<top>> \o ByCount(column, rest \ {top})

\* column.value_counts().head(n): the index, most frequent value first
ValueCountsHead(column, n) ==
    FirstN(ByCount(column, {column[i] : i \in DOMAIN column}), n)

\* create_comprehensive_profile: the statistics of the profile
\* (mean and deviation are exact for the training sets of this model;
\* common_categories keeps the keys of the dict, weekend_ratio is a fraction)
BuildProfile(user_id, transactions) ==
    LET n == Len(transactions)
        mean == SumAmounts(transactions, n) \div n
    IN  [ user_id |-> user_id,
          total_transactions |-> n,
          avg_amount |-> mean,
          std_amount |-> SampleStd(transactions, mean),
          common_categories |->
              ValueCountsHead([i \in 1..n |-> transactions[i].merchant_category], 5),
          active_hours |->
              ValueCountsHead([i \in 1..n |-> transactions[i].hour], 8),
          weekend_ratio |->
              [ num |-> Cardinality({i \in 1..n :
                                       transactions[i].day_of_week \in {5, 6}}),
                den |-> n ] ]

\* the size test accepting one transaction less
TooFewTransactions_inclusive(transactions) ==
    Len(transactions) <= min_training_transactions

\* len(data.transactions) < 15
TooFewTransactions(transactions) == Len(transactions) < min_training_transactions

\* a failed save failing the request
StatusAfterSave_strict(save_outcome) ==
    IF save_outcome = "ok" THEN 200 ELSE 500

\* the status train_user_model answers with once the profile is built:
\* save_model reports a failure by its return value, which is not read,
\* and an exception of the save attempt is caught
StatusAfterSave(save_outcome) == 200

\* POST /train-user: train_user_model calling create_comprehensive_profile
\* (with create_explainer and train_ensemble) and persistence.save_model.
\* The outcomes are what the libraries do:
\*   fit_outcome   "ok" | "raises"     StandardScaler/IsolationForest fitting
\*   shap_outcome  "ok" | "fails"      shap.Explainer(model, training_data)
\*   ens_outcome   "ok" | "fails_before_scaler" | "fails_after_scaler"
\*                                     train_ensemble, by where it raises
\*   save_outcome  "ok" | "fails"      pickle.dump in save_model
Train(user_id, transactions, fit_outcome, shap_outcome, ens_outcome, save_outcome) ==
    LET request == [ op |-> "train", user_id |-> user_id,
                     size |-> Len(transactions) ]
        g == trainings + 1
        fitted == [gen |-> g]
        profile0 == BuildProfile(user_id, transactions)
        profile == IF ens_outcome = "ok"
                   THEN Put(profile0, "ensemble_models", <<"random_forest">>)
                   ELSE profile0
        \* what the libraries did while the request was served
        library == [ fit_outcome |-> fit_outcome, shap_outcome |-> shap_outcome,
                     ens_outcome |-> ens_outcome, save_outcome |-> save_outcome ]
    IN  IF TooFewTransactions(transactions)
        THEN /\ response' = [ request |-> request, status |-> 400, body |-> None,
                                  library |-> None ]
             /\ UNCHANGED <<monitor_vars, engine_vars, saved_models, trainings>>
        ELSE IF fit_outcome = "raises"
        THEN /\ record_error
             /\ response' = [ request |-> request, status |-> 500, body |-> None,
                                  library |-> library ]
             /\ trainings' = g
             /\ UNCHANGED <<engine_vars, saved_models>>
        ELSE /\ profiles' = Put(profiles, user_id, profile)
             /\ models' = Put(models, user_id, fitted)
             /\ scalers' = Put(scalers, user_id, fitted)
             /\ training_data' = Put(training_data, user_id, fitted)
             /\ explainers' = IF shap_outcome = "ok"
                              THEN Put(explainers, user_id, fitted)
                              ELSE explainers
             /\ ens_scalers' = IF ens_outcome \in {"ok", "fails_after_scaler"}
                               THEN Put(ens_scalers, user_id, fitted)
                               ELSE ens_scalers
             /\ ens_models' = IF ens_outcome = "ok"
                              THEN Put(ens_models, user_id, fitted)
                              ELSE ens_models
             /\ ensemble_trained' = Put(ensemble_trained, user_id, ens_outcome = "ok")
             /\ saved_models' = IF save_outcome = "ok"
                                THEN Put(saved_models, user_id,
                                         [ profile |-> profile, model |-> fitted,
                                           scaler |-> fitted ])
                                ELSE saved_models
             /\ trainings' = g
             /\ response' =
                  [ request |-> request, status |-> StatusAfterSave(save_outcome),
                    library |-> library,
                    body |-> [ status |-> "success",
                               profile |-> profile,
                               model_trained |-> TRUE,
                               ensemble_trained |->
                                   user_id \in DOMAIN ensemble_trained',
                               model_saved |-> TRUE,
                               shap_enabled |-> user_id \in DOMAIN explainers' ] ]
             /\ UNCHANGED monitor_vars

\* detect_fraud for a user who has a model: the result is recorded in the
\* monitor; an exception of detect_advanced_fraud is recorded as an error
\* and answered with 500
DetectScored(transaction, isolation_score, ens_outcome, shap_outcome, processing_time, hour) ==
    LET user_id == transaction.user_id
        request == [ op |-> "detect", user_id |-> user_id,
                     transaction |-> transaction ]
        \* what the fitted models returned while the request was served
        library == [ isolation_score |-> isolation_score,
                     ens_outcome |-> ens_outcome,
                     shap_outcome |-> shap_outcome ]
    IN  IF ExplanationsRaise(transaction, profiles[user_id])
        THEN /\ record_error
             /\ response' = [ request |-> request, status |-> 500,
                              body |-> None, library |-> library ]
             /\ UNCHANGED <<engine_vars, saved_models, trainings>>
        ELSE LET result == DetectResult(transaction, isolation_score,
                                        ens_outcome, shap_outcome,
                                        processing_time)
             IN  /\ record_transaction(user_id, result, processing_time, hour)
                 /\ response' = [ request |-> request, status |-> 200,
                                  body |-> result, library |-> library ]
                 /\ UNCHANGED <<engine_vars, saved_models, trainings>>

\* detect-fraud registering an empty profile for a user it does not know
Detect_touching(transaction, isolation_score, ens_outcome, shap_outcome, processing_time, hour) ==
    IF transaction.user_id \notin DOMAIN models
    THEN /\ response' = [ request |-> [ op |-> "detect",
                                        user_id |-> transaction.user_id,
                                        transaction |-> transaction ],
                          status |-> 200, body |-> UnknownResult,
                          library |-> None ]
         /\ profiles' = Put(profiles, transaction.user_id,
                            [user_id |-> transaction.user_id])
         /\ UNCHANGED <<monitor_vars, models, scalers, training_data,
                        explainers, ens_models, ens_scalers, ensemble_trained,
                        saved_models, trainings>>
    ELSE DetectScored(transaction, isolation_score, ens_outcome, shap_outcome,
                      processing_time, hour)

\* detect-fraud recording the answer it gives for a user it does not know
Detect_recording(transaction, isolation_score, ens_outcome, shap_outcome, processing_time, hour) ==
    IF transaction.user_id \notin DOMAIN models
    THEN /\ record_transaction(transaction.user_id, UnknownResult,
                               processing_time, hour)
         /\ response' = [ request |-> [ op |-> "detect",
                                        user_id |-> transaction.user_id,
                                        transaction |-> transaction ],
                          status |-> 200, body |-> UnknownResult,
                          library |-> None ]
         /\ UNCHANGED <<engine_vars, saved_models, trainings>>
    ELSE DetectScored(transaction, isolation_score, ens_outcome, shap_outcome,
                      processing_time, hour)

\* POST /detect-fraud: detect_fraud calling detect_advanced_fraud, which
\* answers for a user without a model before anything is computed
Detect(transaction, isolation_score, ens_outcome, shap_outcome, processing_time, hour) ==
    IF transaction.user_id \notin DOMAIN models
    THEN /\ response' = [ request |-> [ op |-> "detect",
                                        user_id |-> transaction.user_id,
                                        transaction |-> transaction ],
                          status |-> 200, body |-> UnknownResult,
                          library |-> None ]
         /\ UNCHANGED <<monitor_vars, engine_vars, saved_models, trainings>>
    ELSE DetectScored(transaction, isolation_score, ens_outcome, shap_outcome,
                      processing_time, hour)

\* get_current_metrics: active_alerts
ActiveAlerts(al) == {a \in AlertTypes : al[a]}

\* get_current_metrics: fraud_rate > 0.1 (the rate is 0 before any request)
HealthFraudRateHigh(m) ==
    m.total_requests > 0 /\ m.fraud_detected * 10 > m.total_requests

\* get_current_metrics: error_rate > 0.02 (the rate is 0 before any request)
HealthErrorRateHigh(m) ==
    m.total_requests > 0 /\ m.error_count * 100 > 2 * m.total_requests

\* avg_response_time_ms > 150
HealthResponseSlow(m) ==
    AvgResponseTime(m).num > 150 * AvgResponseTime(m).den

\* the health score with the alert penalty of utils/monitoring.py
HealthScore_alert20(m, al) ==
    LET s1 == IF HealthFraudRateHigh(m) THEN 100 - 20 ELSE 100
        s2 == IF HealthResponseSlow(m) THEN s1 - 15 ELSE s1
        s3 == IF HealthErrorRateHigh(m) THEN s2 - 25 ELSE s2
        s4 == s3 - Cardinality(ActiveAlerts(al)) * 20
    IN  Max(0, Min(100, s4))

\* get_system_health: health_score
HealthScore(m, al) ==
    LET s1 == IF HealthFraudRateHigh(m) THEN 100 - 20 ELSE 100
        s2 == IF HealthResponseSlow(m) THEN s1 - 15 ELSE s1
        s3 == IF HealthErrorRateHigh(m) THEN s2 - 25 ELSE s2
        s4 == s3 - Cardinality(ActiveAlerts(al)) * 10
    IN  Max(0, Min(100, s4))

\* get_system_health: health_status
HealthStatus(health_score) ==
    IF health_score >= 90 THEN "EXCELLENT"
    ELSE IF health_score >= 70 THEN "GOOD"
    ELSE IF health_score >= 50 THEN "FAIR"
    ELSE "POOR"

\* GET /monitoring/health
GetSystemHealth ==
    /\ response' =
          [ request |-> [op |-> "health"], status |-> 200, library |-> None,
            body |-> [ system_health |-> HealthStatus(HealthScore(metrics, alerts)),
                       health_score |-> HealthScore(metrics, alerts),
                       active_alerts |-> ActiveAlerts(alerts),
                       key_metrics |->
                           [total_requests |-> metrics.total_requests] ] ]
    /\ UNCHANGED monitor_vars

----------------------------------------------------------------------------
(* Monitor runs: sequences of record_transaction and record_error calls    *)

MonitorUsers == {"u1"}
MonitorHours == {12}
MonitorTimes == {120}

\* results handed to record_transaction: one per risk tier
MonitorScores == {2000000, 6000000, 8000000}
MonitorResults ==
    { [ risk_level |-> RiskTier(s).risk_level,
        is_suspicious |-> RiskTier(s).is_suspicious,
        anomaly_score |-> s ] : s \in MonitorScores }

\* FraudGuardMonitor.__init__
InitMonitorState ==
    /\ metrics = InitMetrics
    /\ alerts = InitAlerts
    /\ alert_log = << >>
    /\ times_history = << >>

\* FraudGuardML.__init__, SHAPExplainer.__init__, EnsembleFraudDetector.__init__
InitEngineState ==
    /\ profiles = EmptyDict
    /\ models = EmptyDict
    /\ scalers = EmptyDict
    /\ training_data = EmptyDict
    /\ explainers = EmptyDict
    /\ ens_models = EmptyDict
    /\ ens_scalers = EmptyDict
    /\ ensemble_trained = EmptyDict
    /\ saved_models = EmptyDict
    /\ trainings = 0
    /\ response = [ request |-> [op |-> "none"], status |-> 0, body |-> None,
                    library |-> None ]

\* the module-level construction of ml_engine, persistence and monitor
InitMonitor ==
    /\ InitMonitorState
    /\ InitEngineState
    /\ threads = EmptyDict

MonitorRecordTransaction ==
    /\ metrics.total_requests < MaxRequests
    /\ \E user_id \in MonitorUsers, result \in MonitorResults,
          processing_time \in MonitorTimes, hour \in MonitorHours :
          /\ result.risk_level \in {"HIGH", "CRITICAL"}
                => Len(metrics.high_risk_transactions) < MaxHighRisk
          /\ record_transaction(user_id, result, processing_time, hour)
    /\ UNCHANGED <<engine_vars, saved_models, trainings, response, threads>>

MonitorRecordError ==
    /\ metrics.error_count < MaxErrors
    /\ record_error
    /\ UNCHANGED <<engine_vars, saved_models, trainings, response, threads>>

NextMonitor == MonitorRecordTransaction \/ MonitorRecordError

SpecMonitor == InitMonitor /\ [][NextMonitor]_vars

----------------------------------------------------------------------------
(* Counter runs: record_transaction and record_error calls for two users   *)
(* in two hours of the day, with a result of every risk tier.              *)

MaxCounterRequests == 4   \* record_transaction calls in a counter run
MaxCounterErrors == 1     \* record_error calls in a counter run

CounterUsers == {"u1", "u2"}
CounterHours == {12, 13}

CounterRecordTransaction ==
    /\ metrics.total_requests < MaxCounterRequests
    /\ \E user_id \in CounterUsers, result \in MonitorResults,
          processing_time \in MonitorTimes, hour \in CounterHours :
          record_transaction(user_id, result, processing_time, hour)
    /\ UNCHANGED <<engine_vars, saved_models, trainings, response, threads>>

CounterRecordError ==
    /\ metrics.error_count < MaxCounterErrors
    /\ record_error
    /\ UNCHANGED <<engine_vars, saved_models, trainings, response, threads>>

NextCounter == CounterRecordTransaction \/ CounterRecordError

SpecCounter == InitMonitor /\ [][NextCounter]_vars

----------------------------------------------------------------------------
(* Window runs: long sequences of record_transaction calls.  The time of   *)
(* the first MaxVaried calls and of every call made on a full window is    *)
(* free; the results are unsuspicious.                                     *)

FastTime == 120
SlowTime == 900

WindowTimes(n) ==
    IF n < MaxVaried \/ n >= processing_times_maxlen
    THEN {FastTime, SlowTime}
    ELSE {FastTime}

WindowResults == {r \in MonitorResults : r.risk_level = "LOW"}

WindowRecordTransaction ==
    /\ metrics.total_requests < MaxWindowRequests
    /\ \E user_id \in MonitorUsers, result \in WindowResults,
          processing_time \in WindowTimes(metrics.total_requests),
          hour \in MonitorHours :
          record_transaction(user_id, result, processing_time, hour)
    /\ UNCHANGED <<engine_vars, saved_models, trainings, response, threads>>

NextWindow == WindowRecordTransaction

SpecWindow == InitMonitor /\ [][NextWindow]_vars

----------------------------------------------------------------------------
(* Scoring runs: one user is trained, with or without a working ensemble,  *)
(* and transactions are scored for the trained and for an untrained user.  *)
(* A detect input is either any transaction with fixed model outputs, or   *)
(* one of a few transactions with varied model outputs.                    *)

MaxScoreTrains == 1    \* train-user requests in a scoring run
MaxScoreDetects == 2   \* detect-fraud requests in a scoring run

Users == {"u1", "u2"}
ScoreTrainUsers == {"u1"}
TrainAmounts == {100, 500}

\* a training set: n transactions like those of tests/test_basic.py
TrainingSet(user_id, n, amount) ==
    [ i \in 1..n |-> [ user_id |-> user_id, amount |-> amount,
                       merchant_category |-> "grocery",
                       hour |-> 12, day_of_week |-> 1 ] ]

Amounts == {1000, 1001, 5000, 5001, 12000}
Categories == {"grocery", "jewelry"}
TxnHours == {2, 5, 12, 22}
Days == {1, 6}

Transactions ==
    [ user_id : Users, amount : Amounts, merchant_category : Categories,
      hour : TxnHours, day_of_week : Days ]

\* an ordinary transaction, and the transaction that fires every rule
CoreTransactions ==
    { t \in Transactions :
         \/ /\ t.amount = 1000 /\ t.merchant_category = "grocery"
            /\ t.hour = 12 /\ t.day_of_week = 1
         \/ /\ t.amount = 12000 /\ t.merchant_category = "jewelry"
            /\ t.hour = 2 /\ t.day_of_week = 6 }

\* decision_function values: 0.5 - isolation_score is 1.1, 0.7, 0.5, 0.2, -0.2
IsolationScores == {-600000, -200000, 0, 300000, 700000}
CoreIsolationScore == 300000

\* predict_proba values around the tier thresholds, or an exception
FraudProbas == {0, 500000, 500001, 700000, 700001, 900000, 900001, 1000000}
EnsOutcomes ==
    {[raises |-> TRUE, fraud_proba |-> 0]}
        \cup {[raises |-> FALSE, fraud_proba |-> p] : p \in FraudProbas}
CoreEnsOutcome == [raises |-> FALSE, fraud_proba |-> 500000]

ShapOutcomes == {"ok", "raises"}

ScoreTrain ==
    /\ trainings < MaxScoreTrains
    /\ \E user_id \in ScoreTrainUsers, amount \in TrainAmounts,
          ens_outcome \in {"ok", "fails_before_scaler"} :
          Train(user_id, TrainingSet(user_id, min_training_transactions, amount),
                "ok", "ok", ens_outcome, "ok")
    /\ UNCHANGED threads

\* the inputs of the detect-fraud requests of a scoring run
ScoreInputs ==
    \* any transaction of the trained user, fixed model outputs
    { [ transaction |-> t, isolation_score |-> CoreIsolationScore,
        ens_outcome |-> CoreEnsOutcome, shap_outcome |-> "ok" ] :
        t \in {x \in Transactions : x.user_id \in ScoreTrainUsers} }
    \cup
    \* a core transaction of any user, any model outputs of which at most
    \* one of anomaly score and ensemble probability is not the fixed one
    { [ transaction |-> x[1], isolation_score |-> x[2],
        ens_outcome |-> x[3], shap_outcome |-> "ok" ] :
        x \in { y \in CoreTransactions \X IsolationScores \X EnsOutcomes :
                    \/ y[3] = CoreEnsOutcome
                    \/ y[3].raises
                    \/ y[2] = CoreIsolationScore } }
    \cup
    \* a core transaction whose attribution fails
    { [ transaction |-> t, isolation_score |-> CoreIsolationScore,
        ens_outcome |-> CoreEnsOutcome, shap_outcome |-> "raises" ] :
        t \in CoreTransactions }

ScoreDetect ==
    /\ metrics.total_requests < MaxScoreDetects
    /\ \E in \in ScoreInputs,
          processing_time \in MonitorTimes, hour \in MonitorHours :
          Detect(in.transaction, in.isolation_score, in.ens_outcome,
                 in.shap_outcome, processing_time, hour)
    /\ UNCHANGED threads

NextScore == ScoreTrain \/ ScoreDetect

SpecScore == InitMonitor /\ [][NextScore]_vars

----------------------------------------------------------------------------
(* Lifecycle runs: users are trained and retrained, with too few or with  *)
(* enough transactions and with every outcome of the libraries, of which  *)
(* at most one per request is a failure; transactions are scored between. *)

MaxTrains == 2     \* train-user requests in a lifecycle run that reach the engine
MaxDetects == 1    \* scored detect-fraud requests in a lifecycle run

TrainSizes == {min_training_transactions - 1, min_training_transactions}
LifeAmount == 100

TrainOutcomes ==
    { o \in [ fit_outcome : {"ok", "raises"}, shap_outcome : {"ok", "fails"},
              ens_outcome : {"ok", "fails_before_scaler", "fails_after_scaler"},
              save_outcome : {"ok", "fails"} ] :
        Cardinality({f \in DOMAIN o : o[f] # "ok"}) <= 1 }

LifeTrain ==
    /\ trainings < MaxTrains
    /\ \E user_id \in Users, n \in TrainSizes, o \in TrainOutcomes :
          Train(user_id, TrainingSet(user_id, n, LifeAmount),
                o.fit_outcome, o.shap_outcome, o.ens_outcome, o.save_outcome)
    /\ UNCHANGED threads

\* an ordinary and an unusual transaction of either user, the ensemble
\* answering or raising
LifeInputs ==
    { [ transaction |-> x[1], isolation_score |-> CoreIsolationScore,
        ens_outcome |-> x[2], shap_outcome |-> x[3] ] :
        x \in CoreTransactions
                \X {CoreEnsOutcome, [raises |-> TRUE, fraud_proba |-> 0]}
                \X ShapOutcomes }

LifeDetect ==
    /\ metrics.total_requests < MaxDetects
    /\ \E in \in LifeInputs,
          processing_time \in MonitorTimes, hour \in MonitorHours :
          Detect(in.transaction, in.isolation_score, in.ens_outcome,
                 in.shap_outcome, processing_time, hour)
    /\ UNCHANGED threads

Next == LifeTrain \/ LifeDetect

Spec == InitMonitor /\ [][Next]_vars

----------------------------------------------------------------------------
(* Explanation runs: one user is trained on a uniform history, on a       *)
(* history of zero amounts or on a history spread over two habits, and    *)
(* transactions that do and do not match the profile are explained.       *)

MaxExplainTrains == 1    \* train-user requests in an explanation run
MaxExplainDetects == 1   \* scored detect-fraud requests in an explanation run

SpreadDeviation == 50

\* a training set of two habits around amount: weekday noon grocery
\* shopping below it, Sunday evening restaurants above it; the mean is
\* amount and the sample standard deviation is d
SpreadTrainingSet(user_id, amount, d) ==
    [ i \in 1..17 |->
        IF i \in 9..16
        THEN [ user_id |-> user_id, amount |-> amount + d,
               merchant_category |-> "restaurant", hour |-> 22,
               day_of_week |-> 6 ]
        ELSE [ user_id |-> user_id,
               amount |-> IF i = 17 THEN amount ELSE amount - d,
               merchant_category |-> "grocery", hour |-> 12,
               day_of_week |-> 1 ] ]

ExplainTrainingSets(user_id) ==
    { TrainingSet(user_id, min_training_transactions, LifeAmount),
      TrainingSet(user_id, min_training_transactions, 0),
      SpreadTrainingSet(user_id, LifeAmount, SpreadDeviation) }

ExplainTrain ==
    /\ trainings < MaxExplainTrains
    /\ \E user_id \in ScoreTrainUsers :
          \E transactions \in ExplainTrainingSets(user_id) :
             Train(user_id, transactions, "ok", "ok", "ok", "ok")
    /\ UNCHANGED threads

\* amounts at the mean of the histories, between two and three deviations
\* above the spread one, and far above
ExplainAmounts == {100, 220, 1000}
ExplainCategories == {"grocery", "jewelry", "gas"}
ExplainHours == {2, 12, 15, 22}

ExplainTransactions ==
    [ user_id : Users, amount : ExplainAmounts,
      merchant_category : ExplainCategories,
      hour : ExplainHours, day_of_week : Days ]

\* the transaction of the habits and the one that differs in everything
ExplainCoreTransactions ==
    { t \in ExplainTransactions :
         \/ /\ t.amount = 100 /\ t.merchant_category = "grocery"
            /\ t.hour = 12 /\ t.day_of_week = 1
         \/ /\ t.amount = 1000 /\ t.merchant_category = "jewelry"
            /\ t.hour = 2 /\ t.day_of_week = 6 }

ExplainShapOutcomes == {"ok", "ok_all", "ok_none", "raises"}

\* the inputs of the detect-fraud requests of an explanation run
ExplainInputs ==
    \* any transaction of the trained user, attribution and ensemble answering
    { [ transaction |-> t, isolation_score |-> CoreIsolationScore,
        ens_outcome |-> CoreEnsOutcome, shap_outcome |-> "ok" ] :
        t \in {x \in ExplainTransactions : x.user_id \in ScoreTrainUsers} }
    \cup
    \* a core transaction of any user, the ensemble answering or raising,
    \* the attribution naming two, six or no features or raising
    { [ transaction |-> x[1], isolation_score |-> CoreIsolationScore,
        ens_outcome |-> x[2], shap_outcome |-> x[3] ] :
        x \in ExplainCoreTransactions
                \X {CoreEnsOutcome, [raises |-> TRUE, fraud_proba |-> 0]}
                \X ExplainShapOutcomes }

ExplainDetect ==
    /\ metrics.total_requests < MaxExplainDetects
    /\ metrics.error_count < MaxErrors
    /\ \E in \in ExplainInputs,
          processing_time \in MonitorTimes, hour \in MonitorHours :
          Detect(in.transaction, in.isolation_score, in.ens_outcome,
                 in.shap_outcome, processing_time, hour)
    /\ UNCHANGED threads

NextExplain == ExplainTrain \/ ExplainDetect

SpecExplain == InitMonitor /\ [][NextExplain]_vars

----------------------------------------------------------------------------
(* Retrain runs: the endpoints are plain functions, which the server runs  *)
(* in worker threads, and the engine takes no lock.  One thread serves     *)
(* train-user requests for a user and another serves detect-fraud requests *)
(* for the same user; a step is one read or one assignment of a registry   *)
(* dict, and the threads interleave between steps.  Fitting and saving     *)
(* succeed; the result handed to the monitor is any of MonitorResults.     *)

MaxRaceTrains == 2     \* train-user requests in a retrain run
MaxRaceDetects == 2    \* detect-fraud requests recorded in a retrain run

RaceUser == "u1"

\* what a detect-fraud request has read of the bundle so far
EmptyView ==
    [ model |-> None, scaler |-> None, profile |-> None, ens_scaler |-> None,
      ens_model |-> None, explainer |-> None ]

IdleThreads ==
    [ train |-> [pc |-> "idle", gen |-> 0],
      detect |-> [pc |-> "idle", view |-> EmptyView] ]

InitRace ==
    /\ InitMonitorState
    /\ InitEngineState
    /\ threads = IdleThreads

\* the thread moves to pc, its locals as given
Goto(thread, pc, locals) ==
    threads' = [threads EXCEPT ![thread] = [pc |-> pc] @@ locals]

\* the profile of a training, stamped with its generation as created_at
RaceProfile(g) ==
    Put(BuildProfile(RaceUser,
                     TrainingSet(RaceUser, min_training_transactions, LifeAmount)),
        "created_at", g)

\* train_user_model up to the end of IsolationForest.fit
TrainFit ==
    /\ threads.train.pc = "idle"
    /\ trainings < MaxRaceTrains
    /\ trainings' = trainings + 1
    /\ Goto("train", "profiles", [gen |-> trainings + 1])
    /\ UNCHANGED <<monitor_vars, engine_vars, saved_models, response>>

\* self.profiles[user_id] = profile
TrainSetProfile ==
    /\ threads.train.pc = "profiles"
    /\ profiles' = Put(profiles, RaceUser, RaceProfile(threads.train.gen))
    /\ Goto("train", "models", [gen |-> threads.train.gen])
    /\ UNCHANGED <<monitor_vars, models, scalers, training_data, explainers,
                   ens_models, ens_scalers, ensemble_trained, saved_models,
                   trainings, response>>

\* self.models[user_id] = model
TrainSetModel ==
    /\ threads.train.pc = "models"
    /\ models' = Put(models, RaceUser, [gen |-> threads.train.gen])
    /\ Goto("train", "scalers", [gen |-> threads.train.gen])
    /\ UNCHANGED <<monitor_vars, profiles, scalers, training_data, explainers,
                   ens_models, ens_scalers, ensemble_trained, saved_models,
                   trainings, response>>

\* self.scalers[user_id] = scaler; self.training_data[user_id] = scaled_features
TrainSetScaler ==
    /\ threads.train.pc = "scalers"
    /\ scalers' = Put(scalers, RaceUser, [gen |-> threads.train.gen])
    /\ training_data' = Put(training_data, RaceUser, [gen |-> threads.train.gen])
    /\ Goto("train", "explainers", [gen |-> threads.train.gen])
    /\ UNCHANGED <<monitor_vars, profiles, models, explainers,
                   ens_models, ens_scalers, ensemble_trained, saved_models,
                   trainings, response>>

\* create_explainer: self.explainers[user_id] = explainer
TrainSetExplainer ==
    /\ threads.train.pc = "explainers"
    /\ explainers' = Put(explainers, RaceUser, [gen |-> threads.train.gen])
    /\ Goto("train", "ens_scalers", [gen |-> threads.train.gen])
    /\ UNCHANGED <<monitor_vars, profiles, models, scalers, training_data,
                   ens_models, ens_scalers, ensemble_trained, saved_models,
                   trainings, response>>

\* train_ensemble: self.scalers[user_id] = scaler
TrainSetEnsScaler ==
    /\ threads.train.pc = "ens_scalers"
    /\ ens_scalers' = Put(ens_scalers, RaceUser, [gen |-> threads.train.gen])
    /\ Goto("train", "ens_models", [gen |-> threads.train.gen])
    /\ UNCHANGED <<monitor_vars, profiles, models, scalers, training_data,
                   explainers, ens_models, ensemble_trained, saved_models,
                   trainings, response>>

\* train_ensemble: self.models[user_id] = model
TrainSetEnsModel ==
    /\ threads.train.pc = "ens_models"
    /\ ens_models' = Put(ens_models, RaceUser, [gen |-> threads.train.gen])
    /\ Goto("train", "ensemble_trained", [gen |-> threads.train.gen])
    /\ UNCHANGED <<monitor_vars, profiles, models, scalers, training_data,
                   explainers, ens_scalers, ensemble_trained, saved_models,
                   trainings, response>>

\* self.ensemble_trained[user_id] = True and profile['ensemble_models'],
\* then train_user_model saving the model and answering
TrainFinish ==
    /\ threads.train.pc = "ensemble_trained"
    /\ ensemble_trained' = Put(ensemble_trained, RaceUser, TRUE)
    /\ profiles' = Put(profiles, RaceUser,
                       Put(profiles[RaceUser], "ensemble_models",
                           <<"random_forest">>))
    /\ saved_models' = Put(saved_models, RaceUser,
                           [ profile |-> profiles'[RaceUser],
                             model |-> models[RaceUser],
                             scaler |-> scalers[RaceUser] ])
    /\ response' =
          [ request |-> [ op |-> "train", user_id |-> RaceUser,
                          size |-> min_training_transactions ],
            status |-> StatusAfterSave("ok"),
            library |-> [ fit_outcome |-> "ok", shap_outcome |-> "ok",
                          ens_outcome |-> "ok", save_outcome |-> "ok" ],
            body |-> [ status |-> "success", profile |-> profiles'[RaceUser],
                       model_trained |-> TRUE,
                       ensemble_trained |-> RaceUser \in DOMAIN ensemble_trained',
                       model_saved |-> TRUE,
                       shap_enabled |-> RaceUser \in DOMAIN explainers ] ]
    /\ Goto("train", "idle", [gen |-> threads.train.gen])
    /\ UNCHANGED <<monitor_vars, models, scalers, training_data, explainers,
                   ens_models, ens_scalers, trainings>>

RaceRequest == [ op |-> "detect", user_id |-> RaceUser ]

\* the view with one more part read
See(part, value) == [view |-> [threads.detect.view EXCEPT ![part] = value]]

\* detect_advanced_fraud: user_id not in self.models, model = self.models[user_id]
DetectReadModel ==
    /\ threads.detect.pc = "idle"
    /\ metrics.total_requests < MaxRaceDetects
    /\ metrics.error_count < MaxErrors
    /\ IF RaceUser \notin DOMAIN models
       THEN /\ response' = [ request |-> RaceRequest, status |-> 200,
                             body |-> UnknownResult, library |-> None ]
            /\ UNCHANGED threads
       ELSE /\ Goto("detect", "scaler",
                    [view |-> [EmptyView EXCEPT !.model = models[RaceUser]]])
            /\ UNCHANGED response
    /\ UNCHANGED <<monitor_vars, engine_vars, saved_models, trainings>>

\* scaler = self.scalers[user_id]; a KeyError ends the request with 500
DetectReadScaler ==
    /\ threads.detect.pc = "scaler"
    /\ IF RaceUser \notin DOMAIN scalers
       THEN /\ record_error
            /\ response' = [ request |-> RaceRequest, status |-> 500,
                             body |-> None, library |-> None ]
            /\ Goto("detect", "idle", [view |-> EmptyView])
       ELSE /\ Goto("detect", "profile", See("scaler", scalers[RaceUser]))
            /\ UNCHANGED <<monitor_vars, response>>
    /\ UNCHANGED <<engine_vars, saved_models, trainings>>

\* profile = self.profiles[user_id]
DetectReadProfile ==
    /\ threads.detect.pc = "profile"
    /\ Goto("detect", "flag",
            See("profile", [gen |-> profiles[RaceUser].created_at]))
    /\ UNCHANGED <<monitor_vars, engine_vars, saved_models, trainings, response>>

\* user_id in self.ensemble_trained and self.ensemble_trained[user_id],
\* predict_ensemble: user_id not in self.models
DetectReadFlag ==
    /\ threads.detect.pc = "flag"
    /\ IF EnsembleEnabled(RaceUser) /\ RaceUser \in DOMAIN ens_models
       THEN Goto("detect", "ens_scaler", [view |-> threads.detect.view])
       ELSE Goto("detect", "explainer", [view |-> threads.detect.view])
    /\ UNCHANGED <<monitor_vars, engine_vars, saved_models, trainings, response>>

\* predict_ensemble: self.scalers[user_id].transform
DetectReadEnsScaler ==
    /\ threads.detect.pc = "ens_scaler"
    /\ Goto("detect", "ens_model", See("ens_scaler", ens_scalers[RaceUser]))
    /\ UNCHANGED <<monitor_vars, engine_vars, saved_models, trainings, response>>

\* predict_ensemble: model = self.models[user_id]
DetectReadEnsModel ==
    /\ threads.detect.pc = "ens_model"
    /\ Goto("detect", "explainer", See("ens_model", ens_models[RaceUser]))
    /\ UNCHANGED <<monitor_vars, engine_vars, saved_models, trainings, response>>

\* explain_prediction: explainer = self.explainers[user_id]
DetectReadExplainer ==
    /\ threads.detect.pc = "explainer"
    /\ Goto("detect", "record",
            IF RaceUser \in DOMAIN explainers
            THEN See("explainer", explainers[RaceUser])
            ELSE [view |-> threads.detect.view])
    /\ UNCHANGED <<monitor_vars, engine_vars, saved_models, trainings, response>>

\* monitor.record_transaction and the answer of detect_fraud; the answer
\* carries the parts of the bundle the result was computed from
DetectFinish ==
    /\ threads.detect.pc = "record"
    /\ \E result \in MonitorResults,
          processing_time \in MonitorTimes, hour \in MonitorHours :
          /\ record_transaction(RaceUser, result, processing_time, hour)
          /\ response' = [ request |-> RaceRequest, status |-> 200,
                           body |-> result, library |-> threads.detect.view ]
    /\ Goto("detect", "idle", [view |-> EmptyView])
    /\ UNCHANGED <<engine_vars, saved_models, trainings>>

NextRace ==
    \/ TrainFit
    \/ TrainSetProfile
    \/ TrainSetModel
    \/ TrainSetScaler
    \/ TrainSetExplainer
    \/ TrainSetEnsScaler
    \/ TrainSetEnsModel
    \/ TrainFinish
    \/ DetectReadModel
    \/ DetectReadScaler
    \/ DetectReadProfile
    \/ DetectReadFlag
    \/ DetectReadEnsScaler
    \/ DetectReadEnsModel
    \/ DetectReadExplainer
    \/ DetectFinish

SpecRace == InitRace /\ [][NextRace]_vars

----------------------------------------------------------------------------
(* Recording runs: detect-fraud requests served by two worker threads call *)
(* record_transaction at the same time; the monitor takes no lock.  The    *)
(* statement metrics[k] += 1 reads the counter and then stores the sum,    *)
(* and the other thread may run between the two.  The steps on the         *)
(* counters total_requests and fraud_detected are modelled one by one; the *)
(* rest of the call is taken in one step each.  The first calls of a run   *)
(* are made one at a time with unsuspicious results, the later ones at the *)
(* same time with any result.                                              *)

SerialRecords == 48  \* record_transaction calls made one at a time
MaxRecords == 51     \* record_transaction calls in a recording run

Recorders == {"r1", "r2"}

IdleRecorder == [pc |-> "idle", result |-> None, read |-> 0]

\* the two threads and the history of the run: the calls started, the
\* calls returned and how many of them had a suspicious result, the
\* suspicious results among the calls that have stored total_requests, and
\* whether an alert evaluation saw a fraud_detected other than that
IdleRecorders ==
    [ r1 |-> IdleRecorder, r2 |-> IdleRecorder,
      returned |-> [ calls |-> 0, suspicious |-> 0, started |-> 0,
                     counted_suspicious |-> 0, torn |-> FALSE ] ]

InitRecord ==
    /\ InitMonitorState
    /\ InitEngineState
    /\ threads = IdleRecorders

\* a record_transaction call while no other is running
SerialRecord ==
    /\ \A r \in Recorders : threads[r].pc = "idle"
    /\ threads.returned.started < SerialRecords
    /\ \E user_id \in MonitorUsers, result \in WindowResults,
          processing_time \in MonitorTimes, hour \in MonitorHours :
          record_transaction(user_id, result, processing_time, hour)
    /\ threads' = [threads EXCEPT !.returned.started = @ + 1,
                                  !.returned.calls = @ + 1]
    /\ UNCHANGED <<engine_vars, saved_models, trainings, response>>

\* monitor.record_transaction(user_id, result, processing_time) is called
RecordCall(r) ==
    /\ threads[r].pc = "idle"
    /\ threads.returned.started >= SerialRecords
    /\ threads.returned.started < MaxRecords
    /\ \E result \in MonitorResults :
          threads' = [threads EXCEPT
                         ![r] = [pc |-> "total_read", result |-> result, read |-> 0],
                         !.returned.started = @ + 1]
    /\ UNCHANGED <<monitor_vars, engine_vars, saved_models, trainings, response>>

\* self.metrics['total_requests'] += 1: the read
RecordReadTotal(r) ==
    /\ threads[r].pc = "total_read"
    /\ threads' = [threads EXCEPT ![r].pc = "total_write",
                                  ![r].read = metrics.total_requests]
    /\ UNCHANGED <<monitor_vars, engine_vars, saved_models, trainings, response>>

\* self.metrics['total_requests'] += 1: the store; then user_activity and
\* processing_times
RecordWriteTotal(r) ==
    /\ threads[r].pc = "total_write"
    /\ \E user_id \in MonitorUsers, processing_time \in MonitorTimes :
          /\ metrics' = [metrics EXCEPT
                 !.total_requests = threads[r].read + 1,
                 !.user_activity = Put(@, user_id, GetDefault(@, user_id, 0) + 1),
                 !.processing_times = DequeAppend(@, processing_time)]
          /\ times_history' = Append(times_history, processing_time)
    /\ threads' = [threads EXCEPT
                      ![r].pc = IF threads[r].result.is_suspicious
                                THEN "fraud_read" ELSE "hourly",
                      !.returned.counted_suspicious =
                          IF threads[r].result.is_suspicious THEN @ + 1 ELSE @]
    /\ UNCHANGED <<alerts, alert_log, engine_vars, saved_models, trainings, response>>

\* self.metrics['fraud_detected'] += 1: the read
RecordReadFraud(r) ==
    /\ threads[r].pc = "fraud_read"
    /\ threads' = [threads EXCEPT ![r].pc = "fraud_write",
                                  ![r].read = metrics.fraud_detected]
    /\ UNCHANGED <<monitor_vars, engine_vars, saved_models, trainings, response>>

\* self.metrics['fraud_detected'] += 1: the store; then high_risk_transactions
RecordWriteFraud(r) ==
    /\ threads[r].pc = "fraud_write"
    /\ \E user_id \in MonitorUsers, hour \in MonitorHours :
          metrics' = [metrics EXCEPT
             !.fraud_detected = threads[r].read + 1,
             !.high_risk_transactions =
                 IF threads[r].result.risk_level \in {"HIGH", "CRITICAL"}
                 THEN Append(@, [ user_id |-> user_id, timestamp |-> hour,
                                  risk_level |-> threads[r].result.risk_level,
                                  anomaly_score |-> threads[r].result.anomaly_score ])
                 ELSE @]
    /\ threads' = [threads EXCEPT ![r].pc = "hourly"]
    /\ UNCHANGED <<times_history, alerts, alert_log, engine_vars, saved_models,
                   trainings, response>>

\* hourly_stats, self._check_alerts() and the return
RecordReturn(r) ==
    /\ threads[r].pc = "hourly"
    /\ \E hour \in MonitorHours :
          LET stats == GetDefault(metrics.hourly_stats, hour,
                                  [requests |-> 0, fraud |-> 0])
              suspicious == threads[r].result.is_suspicious
              m == [metrics EXCEPT !.hourly_stats =
                      Put(@, hour, [ requests |-> stats.requests + 1,
                                     fraud |-> IF suspicious THEN stats.fraud + 1
                                               ELSE stats.fraud ])]
          IN  /\ metrics' = m
              /\ check_alerts(m)
              /\ threads' = [threads EXCEPT
                     ![r] = IdleRecorder,
                     !.returned.calls = @ + 1,
                     !.returned.suspicious = IF suspicious THEN @ + 1 ELSE @,
                     !.returned.torn =
                         \/ @
                         \/ /\ m.total_requests >= min_requests_for_alert
                            /\ m.fraud_detected
                                  # threads.returned.counted_suspicious]
    /\ UNCHANGED <<times_history, engine_vars, saved_models, trainings, response>>

NextRecord ==
    \/ SerialRecord
    \/ \E r \in Recorders :
        \/ RecordCall(r)
        \/ RecordReadTotal(r)
        \/ RecordWriteTotal(r)
        \/ RecordReadFraud(r)
        \/ RecordWriteFraud(r)
        \/ RecordReturn(r)

SpecRecord == InitRecord /\ [][NextRecord]_vars

----------------------------------------------------------------------------
(* Health runs: record_transaction and record_error calls with health      *)
(* queries between them.  The service of a run is uniformly fast or        *)
(* uniformly slow; a bounded number of results is suspicious and a bounded *)
(* number of those is of a high-risk tier.                                 *)

MaxHealthRequests == 51   \* record_transaction calls in a health run
MaxHealthErrors == 3      \* record_error calls in a health run
MaxHealthFraud == 8       \* suspicious results in a health run
MaxIncidents == 2         \* HIGH or CRITICAL results in a health run

\* the processing time of the first call is free, later calls repeat it
HealthTimes ==
    IF metrics.processing_times = << >>
    THEN {FastTime, SlowTime}
    ELSE {metrics.processing_times[1]}

HealthRecordTransaction ==
    /\ metrics.total_requests < MaxHealthRequests
    /\ \E user_id \in MonitorUsers, result \in MonitorResults,
          processing_time \in HealthTimes, hour \in MonitorHours :
          /\ result.is_suspicious => metrics.fraud_detected < MaxHealthFraud
          /\ result.risk_level \in {"HIGH", "CRITICAL"}
                => Len(metrics.high_risk_transactions) < MaxIncidents
          /\ record_transaction(user_id, result, processing_time, hour)
          /\ response' = [ request |-> [ op |-> "record_transaction",
                                         user_id |-> user_id,
                                         result |-> result ],
                           status |-> 0, body |-> None, library |-> None ]
    /\ UNCHANGED <<engine_vars, saved_models, trainings, threads>>

HealthRecordError ==
    /\ metrics.error_count < MaxHealthErrors
    /\ record_error
    /\ response' = [ request |-> [op |-> "record_error"], status |-> 0,
                     body |-> None, library |-> None ]
    /\ UNCHANGED <<engine_vars, saved_models, trainings, threads>>

HealthQuery ==
    /\ GetSystemHealth
    /\ UNCHANGED <<engine_vars, saved_models, trainings, threads>>

NextHealth == HealthRecordTransaction \/ HealthRecordError \/ HealthQuery

SpecHealth == InitMonitor /\ [][NextHealth]_vars

\* the last n entries of s, in order
LastN(s, n) ==
    IF Len(s) <= n THEN s ELSE SubSeq(s, Len(s) - n + 1, Len(s))

\* C4: the processing-time window holds at most 1000 entries, and they are
\* the most recently recorded times in arrival order; once 1001 times have
\* been recorded the window starts after the first one, and
\* avg_response_time_ms is the mean of the times recorded after it.
C4_WindowBounded ==
    /\ Len(metrics.processing_times) <= 1000
    /\ metrics.processing_times = LastN(times_history, 1000)
    /\ Len(times_history) = 1001
          => /\ metrics.processing_times = Tail(times_history)
             /\ AvgResponseTime(metrics).den = 1000
             /\ AvgResponseTime(metrics).num
                    = SumRange(times_history, 2, 1001)

\* 1001 times recorded, the first one slow and evicted
C4_Witness ==
    /\ Len(times_history) = 1001
    /\ times_history[1] = SlowTime
    /\ times_history[2] = FastTime
    /\ metrics.processing_times[1] = FastTime
    /\ AvgResponseTime(metrics).num = 1000 * FastTime

----------------------------------------------------------------------------
(* Alerting properties, checked under SpecMonitor *)

\* the alert evaluation of the step ran: total_requests had reached the minimum
Evaluated == metrics'.total_requests >= min_requests_for_alert

\* C1: the high_fraud_rate alert is emitted exactly once per INACTIVE->ACTIVE
\* transition of its flag, and by no other step; an evaluation that finds
\* fraud_rate > 0.15 while the flag is ACTIVE emits nothing and leaves it ACTIVE.
C1_AlertOncePerActivation ==
    [][ /\ alert_log' =
              IF ~alerts["high_fraud_rate"] /\ alerts'["high_fraud_rate"]
              THEN Append(alert_log, "high_fraud_rate")
              ELSE alert_log
        /\ (alerts["high_fraud_rate"] /\ Evaluated /\ FraudRateHigh(metrics'))
              => (alerts'["high_fraud_rate"] /\ alert_log' = alert_log)
      ]_vars

\* the alert fired at the 50th request and two more evaluations found the
\* rate still over the threshold: one emission only
C1_Witness ==
    /\ metrics.total_requests = 52
    /\ metrics.fraud_detected = 52
    /\ alerts["high_fraud_rate"]
    /\ alert_log = <<"high_fraud_rate">>

\* C2: while total_requests < 50 no alert flag is ACTIVE and nothing has been
\* emitted, whatever was recorded; the evaluation has run in the state where
\* total_requests is 50.
C2_NoAlertBelowMinimum ==
    /\ metrics.total_requests < 50
          => /\ \A a \in AlertTypes : ~alerts[a]
             /\ alert_log = << >>
    /\ metrics.total_requests = 50
          => /\ alerts["high_fraud_rate"] <=> FraudRateHigh(metrics)
             /\ alert_log = IF FraudRateHigh(metrics)
                            THEN <<"high_fraud_rate">>
                            ELSE << >>

\* 49 requests, all suspicious, and an error recorded
C2_Witness ==
    /\ metrics.total_requests = 49
    /\ metrics.fraud_detected = 49
    /\ metrics.error_count > 0

\* C3: an evaluation that finds fraud_rate <= 0.15 while the flag is ACTIVE
\* clears the flag silently; one that finds fraud_rate > 0.15 while it is
\* INACTIVE emits once and sets it; nothing is emitted while it is ACTIVE.
C3_Hysteresis ==
    [][ /\ (alerts["high_fraud_rate"] /\ Evaluated /\ ~FraudRateHigh(metrics'))
              => (~alerts'["high_fraud_rate"] /\ alert_log' = alert_log)
        /\ (~alerts["high_fraud_rate"] /\ Evaluated /\ FraudRateHigh(metrics'))
              => /\ alerts'["high_fraud_rate"]
                 /\ alert_log' = Append(alert_log, "high_fraud_rate")
        /\ alerts["high_fraud_rate"] => alert_log' = alert_log
      ]_vars

\* the alert fired, cleared, and fired again
C3_Witness ==
    /\ alert_log = <<"high_fraud_rate", "high_fraud_rate">>
    /\ alerts["high_fraud_rate"]

----------------------------------------------------------------------------
(* Scoring properties, checked under SpecScore *)

\* r is what a detect-fraud request returned
IsDetect(r) == r.request.op = "detect"

\* r is a scored result: detect-fraud for a user who had a model
IsScored(r) == IsDetect(r) /\ r.library # None /\ r.status = 200

\* the tier the threshold table gives a final score
TableTier(final_score) ==
    CASE final_score \in 9000001..10000000 -> "CRITICAL"
      [] final_score \in 7000001..9000000 -> "HIGH"
      [] final_score \in 5000001..7000000 -> "MEDIUM"
      [] final_score \in 0..5000000 -> "LOW"
      [] OTHER -> "none"

TierRank(risk_level) ==
    CASE risk_level = "LOW" -> 1
      [] risk_level = "MEDIUM" -> 2
      [] risk_level = "HIGH" -> 3
      [] risk_level = "CRITICAL" -> 4
      [] OTHER -> 0

\* C5: a result scored for a trained user carries the tier the table gives
\* its final score, and of two consecutive scored results the one with the
\* higher final score never has the lower tier (equal scores, equal tiers).
C5_TierIsMonotonicTable ==
    [][ (IsDetect(response') /\ response'.request.user_id \in DOMAIN models')
           => /\ IsScored(response')
              /\ response'.body.risk_level
                    = TableTier(response'.body.anomaly_score)
              /\ IsScored(response)
                    => /\ response.body.anomaly_score <= response'.body.anomaly_score
                          => TierRank(response.body.risk_level)
                                <= TierRank(response'.body.risk_level)
                       /\ response.body.anomaly_score >= response'.body.anomaly_score
                          => TierRank(response.body.risk_level)
                                >= TierRank(response'.body.risk_level)
      ]_vars

\* a HIGH result of the anomaly/rule blend, after an earlier scored request
C5_Witness ==
    /\ IsScored(response)
    /\ metrics.total_requests = 2
    /\ response.body.anomaly_score = 7900000
    /\ response.body.risk_level = "HIGH"

\* the tiers at 0.5, 0.500001, 0.7 and 0.700001 with 0.5 in tier low
BoundaryTiers(low) ==
    IsScored(response)
       => /\ response.body.anomaly_score = 5000000
                => response.body.risk_level = low
          /\ response.body.anomaly_score = 5000010
                => response.body.risk_level = "MEDIUM"
          /\ response.body.anomaly_score = 7000000
                => response.body.risk_level = "MEDIUM"
          /\ response.body.anomaly_score = 7000010
                => response.body.risk_level = "HIGH"

\* C6 as stated: final_score 0.5 -> MEDIUM, 0.500001 -> MEDIUM,
\* 0.7 -> MEDIUM, 0.700001 -> HIGH.
C6_BoundariesAsStated == BoundaryTiers("MEDIUM")

\* C6 amended: final_score 0.5 -> LOW, 0.500001 -> MEDIUM, 0.7 -> MEDIUM,
\* 0.700001 -> HIGH.
C6_Boundaries == BoundaryTiers("LOW")

\* a result whose final score is exactly 0.5
C6_Witness ==
    /\ IsScored(response)
    /\ response.body.anomaly_score = 5000000
    /\ response.body.risk_level = "LOW"

\* the ensemble is usable for the user of the last request
EnsembleUsable(user_id) ==
    /\ user_id \in DOMAIN ensemble_trained
    /\ ensemble_trained[user_id]
    /\ user_id \in DOMAIN ens_models

\* C7: in a scored result final_score is 0.7 * anomaly + 0.3 * rules when the
\* user has no trained ensemble or the prediction raised, and then no
\* ensemble result is reported; otherwise it is the ensemble score alone.
C7_ScoreFusion ==
    IsScored(response)
       => LET b == response.body
              lib == response.library
              blend == 7 * NormalizedScore(lib.isolation_score)
                          + 3 * b.model_scores.business_rules
          IN  IF ~EnsembleUsable(response.request.user_id)
                 \/ lib.ens_outcome.raises
              THEN /\ b.ensemble_analysis = None
                   /\ b.anomaly_score = blend
              ELSE /\ b.ensemble_analysis # None
                   /\ b.ensemble_analysis.ensemble_score
                         = lib.ens_outcome.fraud_proba
                   /\ b.anomaly_score = 10 * lib.ens_outcome.fraud_proba

\* the ensemble was trained, its prediction raised, the blend was used
C7_Witness ==
    /\ IsScored(response)
    /\ EnsembleUsable(response.request.user_id)
    /\ response.library.ens_outcome.raises
    /\ response.body.model_scores.business_rules = 1000000
    /\ response.body.anomaly_score = 7900000

\* C8: in every detect result final_score and confidence are in [0,1]; in a
\* scored result so are the anomaly score, which is clamp(0, 1, 0.5 - raw),
\* the rule score and the ensemble score, and confidence is
\* |final_score - 0.5| * 2.
C8_ScoresInUnitInterval ==
    IsDetect(response)
       => LET b == response.body
          IN  /\ b.anomaly_score \in 0..10000000
              /\ b.confidence \in 0..10000000
              /\ IsScored(response)
                    => LET raw == response.library.isolation_score
                           iso == b.model_scores.isolation_forest
                       IN  /\ iso \in 0..1000000
                           /\ iso = IF 500000 - raw < 0 THEN 0
                                    ELSE IF 500000 - raw > 1000000 THEN 1000000
                                    ELSE 500000 - raw
                           /\ b.model_scores.business_rules \in 0..1000000
                           /\ b.model_scores.combined = b.anomaly_score
                           /\ b.ensemble_analysis # None
                                 => b.ensemble_analysis.ensemble_score \in 0..1000000
                           /\ b.confidence
                                 = IF b.anomaly_score >= 5000000
                                   THEN (b.anomaly_score - 5000000) * 2
                                   ELSE (5000000 - b.anomaly_score) * 2

\* 0.5 - raw was 1.1, every rule fired: the blend is exactly 1.0
C8_Witness ==
    /\ IsScored(response)
    /\ response.library.isolation_score = -600000
    /\ response.body.model_scores.isolation_forest = 1000000
    /\ response.body.ensemble_analysis = None
    /\ response.body.anomaly_score = 10000000
    /\ response.body.confidence = 10000000

\* C9: in every detect result is_suspicious holds exactly when risk_level is
\* MEDIUM, HIGH or CRITICAL; it is false for LOW and UNKNOWN.
C9_SuspiciousIffTier ==
    IsDetect(response)
       => /\ response.body.risk_level
                \in {"LOW", "MEDIUM", "HIGH", "CRITICAL", "UNKNOWN"}
          /\ response.body.is_suspicious
                <=> response.body.risk_level \in {"MEDIUM", "HIGH", "CRITICAL"}

\* a MEDIUM result just above 0.5
C9_Witness ==
    /\ IsScored(response)
    /\ response.body.anomaly_score = 5000010
    /\ response.body.risk_level = "MEDIUM"
    /\ response.body.is_suspicious

\* the increments of the rules that fire for a transaction and a profile
RuleIncrements(transaction, profile) ==
      (IF transaction.amount > 5000 THEN 300000 ELSE 0)
    + (IF transaction.amount > 10 * profile.avg_amount THEN 400000 ELSE 0)
    + (IF transaction.hour \in 0..5 THEN 200000 ELSE 0)
    + (IF transaction.merchant_category
             \in {"electronics", "jewelry", "travel", "cash_advance"}
       THEN 200000 ELSE 0)
    + (IF transaction.day_of_week \in {5, 6}
          /\ transaction.hour \in {22, 23, 0, 1, 2}
       THEN 150000 ELSE 0)

\* the transaction amount=12000, hour=2, category=jewelry, day=6
EveryRuleFires(transaction) ==
    /\ transaction.amount = 12000
    /\ transaction.hour = 2
    /\ transaction.merchant_category = "jewelry"
    /\ transaction.day_of_week = 6

\* C10: the rule score of a scored result is min(1.0, sum of the increments
\* of the rules that fire); it is 1.0 for amount=12000, hour=2, jewelry,
\* day=6 with avg_amount=100; scoring leaves the profiles as they were.
C10_RuleScore ==
    [][ IsScored(response')
           => LET t == response'.request.transaction
                  profile == profiles[t.user_id]
                  score == response'.body.model_scores.business_rules
              IN  /\ score = IF RuleIncrements(t, profile) > 1000000
                             THEN 1000000
                             ELSE RuleIncrements(t, profile)
                  /\ (EveryRuleFires(t) /\ profile.avg_amount = 100)
                        => score = 1000000
                  /\ profiles' = profiles
      ]_vars

\* the transaction of the example scored against avg_amount = 100
C10_Witness ==
    /\ IsScored(response)
    /\ EveryRuleFires(response.request.transaction)
    /\ profiles[response.request.user_id].avg_amount = 100
    /\ response.body.model_scores.business_rules = 1000000

----------------------------------------------------------------------------
(* Training and registry properties, checked under Spec *)

\* the step served a train-user request
TrainStep == response'.request.op = "train" /\ vars' # vars

\* the step served a detect-fraud request
DetectStep == response'.request.op = "detect" /\ vars' # vars

\* the registry of trained bundles
registry == <<profiles, models, scalers, training_data, explainers,
              ens_models, ens_scalers, ensemble_trained>>

\* the user has a bundle in the registry
Registered(user_id) ==
    /\ user_id \in DOMAIN profiles
    /\ user_id \in DOMAIN models
    /\ user_id \in DOMAIN scalers

\* C11: a train request with 15 transactions whose fitting does not raise
\* succeeds and registers the user; a train request with 14 transactions is
\* rejected with the insufficient-data error (400) and leaves the registry,
\* the saved models and the monitor as they were.
C11_MinimumTrainingSize ==
    [][ TrainStep =>
          LET size == response'.request.size
              user_id == response'.request.user_id
          IN  /\ size = 14 =>
                    /\ response'.status = 400
                    /\ UNCHANGED <<registry, saved_models, trainings, monitor_vars>>
              /\ size = 15 => response'.status # 400
              /\ (size = 15 /\ response'.library # None
                     /\ response'.library.fit_outcome = "ok") =>
                    /\ response'.status = 200
                    /\ user_id \in DOMAIN profiles'
                    /\ user_id \in DOMAIN scalers'
                    /\ user_id \in DOMAIN models'
                    /\ models'[user_id] = [gen |-> trainings']
                    /\ profiles'[user_id].total_transactions = 15 ]_vars

\* a registered user was retrained with 14 transactions and rejected, after
\* a training with 15 transactions registered them
C11_Witness ==
    /\ response.request.op = "train"
    /\ response.request.size = 14
    /\ response.status = 400
    /\ Registered(response.request.user_id)
    /\ profiles[response.request.user_id].total_transactions = 15

\* the fields of the result of an unscored detect-fraud request
UnscoredFields ==
    {"anomaly_score", "is_suspicious", "risk_level", "explanation", "confidence",
     "processing_time_ms", "shap_analysis", "ensemble_analysis"}

\* C12: a detect-fraud request for a user who has no trained model is
\* answered without an error, with a result that has every field, tier
\* UNKNOWN, is_suspicious false, score 0 and confidence 0, whatever the
\* transaction holds.
C12_UnknownUser ==
    (IsDetect(response) /\ response.request.user_id \notin DOMAIN models) =>
        /\ response.status = 200
        /\ DOMAIN response.body = UnscoredFields
        /\ response.body.risk_level = "UNKNOWN"
        /\ response.body.is_suspicious = FALSE
        /\ response.body.anomaly_score = 0
        /\ response.body.confidence = 0

\* the transaction that fires every rule was sent for a user without a
\* model while another user had one
C12_Witness ==
    /\ IsDetect(response)
    /\ response.request.user_id \notin DOMAIN models
    /\ DOMAIN models # {}
    /\ response.request.transaction.amount = 12000
    /\ response.request.transaction.merchant_category = "jewelry"
    /\ response.body.risk_level = "UNKNOWN"

----------------------------------------------------------------------------
(* Explanation properties, checked under SpecExplain *)

\* r is the answer to a detect-fraud request that returned a result
IsResult(r) == IsDetect(r) /\ r.status = 200

C14_AppearsNormal ==
    (IsScored(response)
        /\ QualifyingStatements(response.request.transaction,
                                profiles[response.request.user_id]) = << >>) =>
        /\ response.body.explanation[1] = appears_normal
        /\ \A i \in DOMAIN response.body.explanation :
              response.body.explanation[i] # ml_confidence

\* the place of a statement in the stated priority order
StatedRank(statement) ==
    CASE statement \in {amount_3sigma, amount_2sigma} -> 1
      [] statement \in {time_night, time_uncommon} -> 2
      [] statement \in {category_high_risk, category_new} -> 3
      [] statement = weekend_unusual -> 4
      [] statement \in {attribution_header, "attribution: feature", attribution_top} -> 5
      [] statement \in {ensemble_header, ensemble_confidence} -> 6
      [] statement = ml_confidence -> 7
      [] OTHER -> 0

\* C15: the statements of the explanation list of a detect-fraud result are
\* in the order amount deviation, time of day, category, weekend note,
\* attribution highlights, ensemble confidence summary, machine/rule
\* confidence line, whichever of them are present.
C15_StatedOrder ==
    IsResult(response) =>
        \A i, j \in DOMAIN response.body.explanation :
            i < j => StatedRank(response.body.explanation[i])
                        <= StatedRank(response.body.explanation[j])

\* C16: a detect-fraud request changes no profile and no other part of the
\* registry of trained bundles, nor the saved models: the registry changes
\* only when a train-user request is served.
C16_DetectKeepsRegistry ==
    [][ /\ DetectStep => UNCHANGED <<registry, saved_models, trainings>>
        /\ registry' # registry => TrainStep ]_vars

\* a transaction was scored after the user had been trained twice, and the
\* profile is the one the training built
C16_Witness ==
    /\ IsScored(response)
    /\ trainings = 2
    /\ metrics.total_requests = 1
    /\ profiles[response.request.user_id].total_transactions = 15
    /\ models[response.request.user_id] = [gen |-> 2]

\* C19: a train-user request whose save fails is answered with success,
\* and the bundle it built is registered; a user whose bundle was never
\* saved is scored by detect-fraud.
C19_SaveFailureTolerated ==
    /\ (response.request.op = "train" /\ response.library # None
           /\ response.library.save_outcome = "fails") =>
          /\ response.status = 200
          /\ response.body.status = "success"
          /\ Registered(response.request.user_id)
          /\ models[response.request.user_id] = [gen |-> trainings]
          /\ profiles[response.request.user_id] = response.body.profile
    /\ (IsDetect(response) /\ Registered(response.request.user_id)) =>
          IsScored(response)

\* a transaction was scored for a user whose only training could not be saved
C19_Witness ==
    /\ IsScored(response)
    /\ response.request.user_id \notin DOMAIN saved_models
    /\ trainings = 1
    /\ response.body.risk_level # "UNKNOWN"

\* the last training of the user did not produce an ensemble model: none is
\* stored, or the stored one is of an earlier training
EnsembleMissing(user_id) ==
    \/ user_id \notin DOMAIN ens_models
    \/ ens_models[user_id] # models[user_id]

\* C20: a train-user request whose ensemble training fails is answered with
\* success and registers profile and anomaly model; a transaction scored for
\* a user whose last training produced no ensemble model gets the blend
\* 0.7 * anomaly + 0.3 * rules and no ensemble result, also when an ensemble
\* model of an earlier training is still stored.
C20_EnsembleFailureDegrades ==
    /\ (response.request.op = "train" /\ response.library # None
           /\ response.library.ens_outcome # "ok") =>
          /\ response.status = 200
          /\ Registered(response.request.user_id)
          /\ models[response.request.user_id] = [gen |-> trainings]
          /\ EnsembleMissing(response.request.user_id)
    /\ (IsScored(response) /\ EnsembleMissing(response.request.user_id)) =>
          /\ response.body.ensemble_analysis = None
          /\ response.body.model_scores.ensemble = None
          /\ response.body.anomaly_score
                = 7 * NormalizedScore(response.library.isolation_score)
                    + 3 * response.body.model_scores.business_rules

\* a transaction was scored with the blend for a user who was retrained
\* without an ensemble while the ensemble model of the first training is
\* still stored and the ensemble prediction would have answered
C20_Witness ==
    /\ IsScored(response)
    /\ response.request.user_id \in DOMAIN ens_models
    /\ ens_models[response.request.user_id] = [gen |-> 1]
    /\ models[response.request.user_id] = [gen |-> 2]
    /\ ~response.library.ens_outcome.raises
    /\ response.body.ensemble_analysis = None

----------------------------------------------------------------------------
(* Concurrency properties, checked under SpecRace *)

\* the trainings whose parts a view holds
Generations(view) ==
    {view[part].gen : part \in {q \in DOMAIN view : view[q] # None}}

\* C17: the model, scaler, profile, ensemble scaler, ensemble model and
\* explainer that a detect-fraud request reads while the user is being
\* retrained all come from one training.
C17_SameGeneration ==
    Cardinality(Generations(threads.detect.view)) <= 1

\* no record_transaction call is running
AllReturned == \A r \in Recorders : threads[r].pc = "idle"

\* C18: when record_transaction calls that ran in different threads have all
\* returned, total_requests has grown by the number of calls and
\* fraud_detected by the number of calls with a suspicious result; and no
\* alert evaluation has seen a fraud_detected that misses the suspicious
\* result of a call that total_requests already counts.
C18_NoLostUpdate ==
    /\ AllReturned =>
          /\ metrics.total_requests = threads.returned.calls
          /\ metrics.fraud_detected = threads.returned.suspicious
    /\ ~threads.returned.torn

----------------------------------------------------------------------------
(* Health and alert properties, checked under SpecHealth *)

\* r answers a health query
IsHealth(r) == r.request.op = "health"

\* 1 if the condition holds, else 0
Indicator(condition) == IF condition THEN 1 ELSE 0

\* the answer of a health query is the stated score and status of the
\* monitoring state (every later call replaces the answer)
HealthAsStated ==
    IsHealth(response) =>
        LET m == metrics
            times == m.processing_times
            fraud == m.total_requests > 0
                        /\ 10 * m.fraud_detected > m.total_requests
            slow == times # << >>
                        /\ SumRange(times, 1, Len(times)) > 150 * Len(times)
            errors == m.total_requests > 0
                        /\ 100 * m.error_count > 2 * m.total_requests
            active == Cardinality({a \in DOMAIN alerts : alerts[a]})
            raw == 100 - 20 * Indicator(fraud) - 15 * Indicator(slow)
                       - 25 * Indicator(errors) - 10 * active
            score == IF raw < 0 THEN 0 ELSE IF raw > 100 THEN 100 ELSE raw
        IN  /\ response.body.health_score = score
            /\ response.body.system_health =
                  CASE score >= 90 -> "EXCELLENT"
                    [] score \in 70..89 -> "GOOD"
                    [] score \in 50..69 -> "FAIR"
                    [] OTHER -> "POOR"

\* C21: the health score is 100 less 20 if fraud_rate > 0.1, less 15 if the
\* average response time is above 150 ms, less 25 if error_rate > 0.02 and
\* less 10 per active alert, kept within 0..100; the status is EXCELLENT
\* from 90, GOOD from 70, FAIR from 50 and POOR below; and a health query
\* leaves the monitoring state as it was.
C21_HealthSummary ==
    /\ []HealthAsStated
    /\ [][ (IsHealth(response') /\ response' # response)
              => UNCHANGED monitor_vars ]_vars

\* every penalty applies: the health is POOR with score 30
C21_Witness ==
    /\ IsHealth(response)
    /\ response.body.health_score = 30
    /\ response.body.system_health = "POOR"
    /\ alerts["high_fraud_rate"]
    /\ metrics.total_requests >= 50

\* the average processing time over the window is above 200 ms
WindowSlow(m) ==
    /\ m.processing_times # << >>
    /\ SumRange(m.processing_times, 1, Len(m.processing_times))
          > 200 * Len(m.processing_times)

\* C22: after a record_transaction that leaves total_requests >= 50, the
\* slow_response alert is active exactly if the average processing time
\* over the window is above 200 ms, and it was emitted when it became
\* active.
C22_SlowResponseAlert ==
    (response.request.op = "record_transaction"
        /\ metrics.total_requests >= 50) =>
        /\ alerts["slow_response"] <=> WindowSlow(metrics)
        /\ alerts["slow_response"] =>
              \E i \in DOMAIN alert_log : alert_log[i] = "slow_response"

\* C23: record_error increments error_count by one, leaves total_requests
\* and every other counter unchanged, and evaluates the alerts: once
\* total_requests >= 50 the model_errors alert is active after a
\* record_error that leaves error_count / total_requests > 0.05.
C23_RecordError ==
    [][ (response'.request.op = "record_error" /\ metrics' # metrics) =>
          /\ metrics' = [metrics EXCEPT !.error_count = @ + 1]
          /\ (metrics'.total_requests >= 50
                 /\ 100 * metrics'.error_count > 5 * metrics'.total_requests)
                => alerts'["model_errors"] ]_vars

\* the largest capacity of the incident list that a health run can exceed:
\* one less than the high-risk results it records
IncidentCapacity == MaxIncidents - 1

\* C24: record_transaction appends one entry to the high-risk incident list
\* exactly when the tier of the recorded result is HIGH or CRITICAL, and the
\* list has a capacity: of the capacities a run can exceed, the largest is
\* never exceeded.
C24_BoundedIncidents ==
    /\ [][ (response'.request.op = "record_transaction" /\ metrics' # metrics) =>
              LET incidents == metrics.high_risk_transactions
                  after == metrics'.high_risk_transactions
              IN  IF response'.request.result.risk_level \in {"HIGH", "CRITICAL"}
                  THEN /\ Len(after) = Len(incidents) + 1
                       /\ SubSeq(after, 1, Len(incidents)) = incidents
                       /\ after[Len(after)].risk_level
                             = response'.request.result.risk_level
                  ELSE after = incidents ]_vars
    /\ [](Len(metrics.high_risk_transactions) <= IncidentCapacity)

----------------------------------------------------------------------------
(* Attribution and registry properties, checked under Spec *)

\* the statements detect-fraud appends for an available attribution
AttributionStatements ==
    {attribution_header, "attribution: feature", attribution_top}

\* C25: when the user has no explainer or the explainer raises, a
\* detect-fraud request for a user with a model is still answered with a
\* normal result, whose attribution is flagged not available and whose
\* explanation list holds no attribution statement.
C25_AttributionOptional ==
    (IsDetect(response) /\ response.library # None
        /\ (\/ response.request.user_id \notin DOMAIN explainers
            \/ response.library.shap_outcome = "raises")) =>
        /\ response.status = 200
        /\ response.body.risk_level \in {"LOW", "MEDIUM", "HIGH", "CRITICAL"}
        /\ response.body.shap_analysis.shap_available = FALSE
        /\ \A i \in DOMAIN response.body.explanation :
              response.body.explanation[i] \notin AttributionStatements

\* a transaction was scored for a user whose explainer could not be built
C25_Witness ==
    /\ IsScored(response)
    /\ response.request.user_id \notin DOMAIN explainers
    /\ response.library.shap_outcome = "ok"
    /\ response.body.shap_analysis.shap_available = FALSE
    /\ Len(response.body.explanation) >= 1

\* C26: a registered user stays registered over every later train-user and
\* detect-fraud request of any user, and a train-user request that succeeds
\* stores the profile, the model and the scaler it built in place of the
\* ones the user had: the profile is the one computed from this request's
\* transactions, carrying an ensemble entry only if this request trained
\* the ensemble, and the model and the scaler are the ones fitted now.
C26_RegistryLifetime ==
    [][ /\ \A user_id \in Users :
              Registered(user_id) =>
                  /\ user_id \in DOMAIN profiles'
                  /\ user_id \in DOMAIN models'
                  /\ user_id \in DOMAIN scalers'
        /\ (TrainStep /\ response'.status = 200) =>
              LET user_id == response'.request.user_id
                  built == BuildProfile(user_id,
                               TrainingSet(user_id, response'.request.size,
                                           LifeAmount))
              IN  /\ profiles'[user_id] =
                        IF response'.library.ens_outcome = "ok"
                        THEN Put(built, "ensemble_models", <<"random_forest">>)
                        ELSE built
                  /\ models'[user_id] = [gen |-> trainings']
                  /\ scalers'[user_id] = [gen |-> trainings']
                  /\ \A other \in DOMAIN models :
                        models[other] # models'[user_id]
                  /\ \A other \in Users \ {user_id} :
                        other \in DOMAIN models =>
                            /\ profiles'[other] = profiles[other]
                            /\ models'[other] = models[other]
                            /\ scalers'[other] = scalers[other] ]_vars

\* a user whose first training built the ensemble has been retrained with
\* the ensemble failing: the bundle is the second generation and its
\* profile has no ensemble entry
C26_Witness ==
    /\ response.request.op = "train" /\ response.status = 200
    /\ \E user_id \in Users :
          /\ response.request.user_id = user_id
          /\ models[user_id] = [gen |-> 2]
          /\ scalers[user_id] = [gen |-> 2]
          /\ user_id \in DOMAIN ens_models
          /\ ens_models[user_id] = [gen |-> 1]
          /\ "ensemble_models" \notin DOMAIN profiles[user_id]

\* C27: a detect-fraud request for a user without a model leaves the
\* monitor as it was (counters, per-user and per-hour counts, processing
\* times, incidents, alert flags and alert log), and a detect-fraud request
\* answered with a result for a user with a model is recorded once:
\* total_requests, the user's count and the processing times each grow by
\* one.
C27_DetectRecording ==
    [][ DetectStep =>
          LET user_id == response'.request.user_id
          IN  IF user_id \notin DOMAIN models
              THEN UNCHANGED monitor_vars
              ELSE response'.status = 200 =>
                     /\ metrics'.total_requests = metrics.total_requests + 1
                     /\ metrics'.user_activity[user_id] =
                           GetDefault(metrics.user_activity, user_id, 0) + 1
                     /\ Len(metrics'.processing_times) =
                           Len(metrics.processing_times) + 1
                     /\ metrics'.fraud_detected =
                           metrics.fraud_detected
                             + Indicator(response'.body.is_suspicious) ]_vars

\* a request for a user without a model was answered after a request for
\* a user with a model had been recorded
C27_Witness ==
    /\ IsDetect(response) /\ response.library = None
    /\ response.request.user_id \notin DOMAIN models
    /\ metrics.total_requests = 1
    /\ Len(metrics.processing_times) = 1

----------------------------------------------------------------------------
(* Counter properties, checked under SpecCounter *)

RECURSIVE SumOfCounts(_, _)
\* the sum of count(d[k]) over the keys of the dict d
SumOfCounts(d, field) ==
    IF DOMAIN d = {}
    THEN 0
    ELSE LET k == CHOOSE x \in DOMAIN d : TRUE
             rest == [x \in DOMAIN d \ {k} |-> d[x]]
             count == IF field = "value" THEN d[k] ELSE d[k][field]
         IN  count + SumOfCounts(rest, field)

\* C28: after any sequence of record_transaction and record_error calls,
\* fraud_detected is at most total_requests, the per-user request counts
\* sum to total_requests, the per-hour request counts sum to
\* total_requests, the per-hour fraud counts sum to fraud_detected, and
\* there are at most fraud_detected high-risk incidents.
C28_CounterConsistency ==
    /\ metrics.fraud_detected <= metrics.total_requests
    /\ SumOfCounts(metrics.user_activity, "value") = metrics.total_requests
    /\ SumOfCounts(metrics.hourly_stats, "requests") = metrics.total_requests
    /\ SumOfCounts(metrics.hourly_stats, "fraud") = metrics.fraud_detected
    /\ Len(metrics.high_risk_transactions) <= metrics.fraud_detected

\* requests of both users in both hours were recorded, suspicious and
\* unsuspicious ones, one of them as an incident, and an error as well
C28_Witness ==
    /\ metrics.total_requests = MaxCounterRequests
    /\ DOMAIN metrics.user_activity = CounterUsers
    /\ DOMAIN metrics.hourly_stats = CounterHours
    /\ metrics.fraud_detected = 2
    /\ Len(metrics.high_risk_transactions) = 1
    /\ metrics.error_count = 1

----------------------------------------------------------------------------
(* Explainer and response-flag properties, checked under Spec *)

\* C29: the explainer registered for a user was built from the model that
\* is registered for the user now, and the attribution of a scored
\* transaction comes from the explainer of the model registered when the
\* request was served; an explainer of an earlier training is never left
\* registered or used.
C29_ExplainerOfCurrentModel ==
    /\ [](\A user_id \in DOMAIN explainers :
             explainers[user_id] = models[user_id])
    /\ [][ (DetectStep /\ IsScored(response')
              /\ response'.body.shap_analysis.shap_available) =>
                response'.body.shap_analysis.explainer =
                    models'[response'.request.user_id] ]_vars

\* C30: in the answer of a train-user request that succeeded, model_saved
\* is true only if save_model succeeded in this request, ensemble_trained
\* only if the ensemble training succeeded in this request, and
\* shap_enabled only if the explainer was built in this request.
C30_OutcomeFlags ==
    (response.request.op = "train" /\ response.status = 200) =>
        /\ response.body.model_saved => response.library.save_outcome = "ok"
        /\ response.body.ensemble_trained => response.library.ens_outcome = "ok"
        /\ response.body.shap_enabled => response.library.shap_outcome = "ok"

====
